---- MODULE Spec2Model ----
(***************************************************************************)
(* A model of the Brain Gym knowledge library (abhishek5878/jarvis):       *)
(* the insights table shared by every component, the daily selection of    *)
(* utils.py and database_v2.py, the topic search of search_engine.py,      *)
(* save_note of content_app.py, the embedding and semantic search of       *)
(* embeddings.py and the query router of query_engine.py.                  *)
(*                                                                         *)
(* Text is a sequence of one-character strings, so that Python's           *)
(* substring test, lower(), split(), strip() and str() are computed and    *)
(* not assumed.  A calendar date is its day number (ISO dates compare as   *)
(* their day numbers do).  SQL NULL is NullInt for an integer or date      *)
(* column and NullText for a text column.  Relevance scores are kept in    *)
(* tenths, which makes every score of search_engine.py an integer, and     *)
(* cosine similarities in 25ths, exact for the vectors of the model.       *)
(***************************************************************************)
EXTENDS Integers, Sequences, FiniteSets, TLC

---------------------------------------------------------------------------
(* Bounds of the model *)

\* insights the daily-practice specification stores
MaxInsights == 4
\* last calendar day of a run (days are 0..MaxDay)
MaxDay == 1
\* cap on the responses, skips and archivings of one run
MaxActions == 1
\* insights the database_v2.py specification stores
MaxManual == 3
\* largest count passed to get_daily_insights
MaxCount == 2
\* rows of a library the searches are checked on
MaxLib == 3
\* largest limit of a search
MaxLimit == 2
\* notes the library specification saves
MaxNotes == 2
\* rows the syntheses table holds
MaxSyntheses == 1

---------------------------------------------------------------------------
(* SQL NULL *)

NullInt == 0 - 1
NullText == <<"NULL">>

---------------------------------------------------------------------------
(* Python string operations on sequences of characters *)

\* str.lower() on the characters the model uses
LowerChar(c) ==
    CASE c = "A" -> "a"
      [] c = "N" -> "n"
      [] c = "S" -> "s"
      [] c = "T" -> "t"
      [] OTHER -> c

Lower(s) == [i \in 1..Len(s) |-> LowerChar(s[i])]

\* needle in hay
Contains(hay, needle) ==
    \E i \in 0..(Len(hay) - Len(needle)) :
        SubSeq(hay, i + 1, i + Len(needle)) = needle

\* the characters \w matches
WordChars ==
    {"a", "b", "c", "d", "e", "f", "g", "h", "i", "j", "k", "l", "m",
     "n", "o", "p", "q", "r", "s", "t", "u", "v", "w", "x", "y", "z",
     "A", "N", "S", "T",
     "0", "1", "2", "3", "4", "5", "6", "7", "8", "9", "_"}

\* s.split(sep) for a one-character separator: never an empty list
RECURSIVE SplitFrom(_, _, _, _)
SplitFrom(s, sep, i, cur) ==
    IF i > Len(s) THEN <<cur>>
    ELSE IF s[i] = sep THEN <<cur>> \o SplitFrom(s, sep, i + 1, <<>>)
    ELSE SplitFrom(s, sep, i + 1, Append(cur, s[i]))

Split(s, sep) == SplitFrom(s, sep, 1, <<>>)

\* sep.join(parts)
RECURSIVE Join(_, _)
Join(parts, sep) ==
    IF Len(parts) = 0 THEN <<>>
    ELSE IF Len(parts) = 1 THEN parts[1]
    ELSE parts[1] \o <<sep>> \o Join(Tail(parts), sep)

\* s.strip() (the model's only whitespace is the space)
RECURSIVE LStrip(_)
LStrip(s) == IF Len(s) > 0 /\ s[1] = " " THEN LStrip(Tail(s)) ELSE s

RECURSIVE RStrip(_)
RStrip(s) ==
    IF Len(s) > 0 /\ s[Len(s)] = " " THEN RStrip(SubSeq(s, 1, Len(s) - 1))
    ELSE s

Strip(s) == LStrip(RStrip(s))

Digits == <<"0", "1", "2", "3", "4", "5", "6", "7", "8", "9">>

\* str(n) for n >= 0
RECURSIVE IntToStr(_)
IntToStr(n) ==
    IF n < 10 THEN <<Digits[n + 1]>>
    ELSE Append(IntToStr(n \div 10), Digits[(n % 10) + 1])

DigitValue(c) == CHOOSE d \in 0..9 : Digits[d + 1] = c

\* SQLite's conversion of a text of digits compared with an INTEGER column
RECURSIVE StrToInt(_)
StrToInt(s) ==
    IF Len(s) = 0 THEN 0
    ELSE 10 * StrToInt(SubSeq(s, 1, Len(s) - 1)) + DigitValue(s[Len(s)])

IsDigits(s) == Len(s) > 0 /\ \A i \in 1..Len(s) : s[i] \in {Digits[d] : d \in 1..10}

\* the elements of a sequence
Range(s) == {s[i] : i \in 1..Len(s)}

Min(a, b) == IF a <= b THEN a ELSE b

---------------------------------------------------------------------------
(* Values of the text columns *)

\* a text column that is neither NULL nor ''
Truthy(s) == s # NullText /\ s # <<>>

\* Python's (s or '')
OrEmpty(s) == IF s = NullText THEN <<>> ELSE s

HttpsScheme == <<"h", "t", "t", "p", "s", ":", "/", "/">>

UrlWwwA == HttpsScheme \o <<"w", "w", "w", ".", "a", ".", "c", "o", "m", "/", "p">>
UrlABlog == HttpsScheme \o <<"a", ".", "c", "o", "m", "/", "b", "l", "o", "g">>
UrlB == HttpsScheme \o <<"b", ".", "c", "o", "m">>
\* a source_url without a scheme: urlparse finds no netloc in it
UrlBare == <<"a", ".", "c", "o", "m">>

TagStartups == <<"s", "t", "a", "r", "t", "u", "p", "s">>
TagWriting == <<"w", "r", "i", "t", "i", "n", "g">>
TagHighValue == <<"h", "i", "g", "h", "_", "v", "a", "l", "u", "e">>

TextNote == <<"a", " ", "n", "o", "t", "e">>
TextStartupsWin == <<"s", "t", "a", "r", "t", "u", "p", "s", " ", "w", "i", "n">>

\* the topics searched for
TopicStartups == TagStartups
TopicTheArt == <<"T", "h", "e", " ", "A", "r", "t">>
Topics == {TopicStartups, TopicTheArt}

\* s[i..] up to, not including, the first character of stop
RECURSIVE TakeUntil(_, _)
TakeUntil(s, stop) ==
    IF Len(s) = 0 \/ s[1] \in stop THEN <<>>
    ELSE <<s[1]>> \o TakeUntil(Tail(s), stop)

StartsWith(s, prefix) ==
    Len(s) >= Len(prefix) /\ SubSeq(s, 1, Len(prefix)) = prefix

\* urlparse(url).netloc, for the https URLs and the scheme-less texts of the model
UrlNetloc(url) ==
    IF StartsWith(url, HttpsScheme)
    THEN TakeUntil(SubSeq(url, Len(HttpsScheme) + 1, Len(url)), {"/", "?", "#"})
    ELSE <<>>

\* s.replace(old, '')
RECURSIVE Remove(_, _)
Remove(s, old) ==
    IF Len(s) = 0 THEN <<>>
    ELSE IF StartsWith(s, old) THEN Remove(SubSeq(s, Len(old) + 1, Len(s)), old)
    ELSE <<s[1]>> \o Remove(Tail(s), old)

WwwDot == <<"w", "w", "w", ".">>

---------------------------------------------------------------------------
(* The state *)

VARIABLES
    insights,        \* the insights table: row i has id i
    daily_sessions,  \* daily_sessions.insights_shown by session_date
    today,           \* datetime.now().date()
    lastOp,          \* the selection or search that ran last ("none" after a write)
    result,          \* the rows it returned
    raised,          \* whether it raised
    args,            \* the arguments it was called with
    scored,          \* of a search: scored_insights after the sort, before the variety pass
    loaded,          \* of a semantic_search: the ids in the order the query loaded them
    syntheses,       \* the syntheses table: row i has id i
    embed_run,       \* the run of embed_all_insights in progress, or NoRun
    session_rows,    \* the rows of daily_sessions the concurrent calls write
    callers          \* the concurrent calls of get_daily_insights

vars == <<insights, daily_sessions, today, lastOp, result, raised, args, scored, loaded,
          syntheses, embed_run, session_rows, callers>>

Ids == 1..Len(insights)

\* NULL in the trial_key column, and no trial key passed
NoTrialKey == "NULL"

\* the arguments of a call without arguments; embedded tells whether
\* generate_embedding answered the call's query with a vector
NoArgs == [topic |-> <<>>, limit |-> 0, user_id |-> NullInt, trial_key |-> NoTrialKey,
           embedded |-> TRUE]

\* no run of embed_all_insights is in progress
NoRun == [active |-> FALSE, rows |-> <<>>, i |-> 0, uncommitted |-> <<>>, runs |-> 0]

\* no call of get_daily_insights is in progress
NoCallers == <<>>

\* daily_sessions has no row for the date
NoSession == NullText

\* a row as the schema's defaults leave it: database.py's table and the columns
\* database_cleaned.py, database_v2.py, smart_extractor.py, embeddings.py and
\* plg_migrate.py add
DefaultRow(id) ==
    [id |-> id,
     content |-> <<>>,
     content_pad |-> 0,
     source_url |-> NullText,
     source_type |-> NullText,
     context_message |-> NullText,
     tags |-> NullText,
     status |-> "pending",
     content_category |-> "uncategorized",
     is_duplicate |-> FALSE,
     duplicate_of_id |-> NullInt,
     has_useful_content |-> FALSE,
     extracted_text |-> NullText,
     extracted_pad |-> 0,
     last_shown_date |-> NullInt,
     times_skipped |-> 0,
     archived |-> FALSE,
     quality_score |-> 5,
     useful_for_daily |-> TRUE,
     embedding |-> NullText,
     trial_key |-> NoTrialKey,
     user_id |-> NullInt,
     shared_date |-> NullInt]

\* UPDATE insights SET ... WHERE id = ?
UpdateRow(table, id, changes) ==
    [i \in 1..Len(table) |->
        IF i = id
        THEN [f \in DOMAIN table[i] |->
                 IF f \in DOMAIN changes THEN changes[f] ELSE table[i][f]]
        ELSE table[i]]

\* the ids of returned rows
IdsOf(rows) == {rows[i].id : i \in 1..Len(rows)}

\* [i["id"] for i in rows]
IdsSeq(rows) == [i \in 1..Len(rows) |-> rows[i].id]

\* every sequence that lists the set S once and never puts b before a when
\* <<a, b>> is in before: the row orders an ORDER BY leaves open
Orderings(S, before) ==
    {s \in [1..Cardinality(S) -> S] :
        /\ \A j, k \in 1..Cardinality(S) : j # k => s[j] # s[k]
        /\ \A j, k \in 1..Cardinality(S) : j < k => <<s[k], s[j]>> \notin before}

Rows(seqOfIds) == [i \in 1..Len(seqOfIds) |-> insights[seqOfIds[i]]]

---------------------------------------------------------------------------
(* utils.py: BrainGymUtils, the daily practice the web app of app.py serves *)

\* the domain 'none' get_daily_three's variety pass gives a row without source_url
DomainNone == <<"n", "o", "n", "e">>

\* BrainGymUtils._extract_domain
U_extract_domain(url) == Remove(UrlNetloc(url), WwwDot)

\* the domain BrainGymUtils._ensure_variety computes for a row
U_domain(row) ==
    IF Truthy(row.source_url) THEN U_extract_domain(row.source_url) ELSE DomainNone

\* BrainGymUtils._ensure_variety, first pass, from candidate i on
RECURSIVE U_first_pass(_, _, _, _, _, _)
U_first_pass(candidates, count, i, selected, used_categories, used_domains) ==
    IF i > Len(candidates) \/ Len(selected) >= count THEN selected
    ELSE LET insight == candidates[i]
             category == insight.content_category
             domain == U_domain(insight)
         IN IF category \notin used_categories \/ domain \notin used_domains
            THEN U_first_pass(candidates, count, i + 1, Append(selected, insight),
                     IF category # "" THEN used_categories \cup {category}
                     ELSE used_categories,
                     IF domain # <<>> THEN used_domains \cup {domain}
                     ELSE used_domains)
            ELSE U_first_pass(candidates, count, i + 1, selected,
                     used_categories, used_domains)

\* one run of the for loop that fills the remaining slots, from candidate i on
RECURSIVE U_fill_loop(_, _, _, _)
U_fill_loop(candidates, count, i, selected) ==
    IF i > Len(candidates) THEN selected
    ELSE IF candidates[i] \notin Range(selected)
    THEN IF Len(selected) + 1 >= count THEN Append(selected, candidates[i])
         ELSE U_fill_loop(candidates, count, i + 1, Append(selected, candidates[i]))
    ELSE U_fill_loop(candidates, count, i + 1, selected)

\* the while loop around it
RECURSIVE U_fill(_, _, _)
U_fill(candidates, count, selected) ==
    IF Len(selected) < count /\ Len(selected) < Len(candidates)
    THEN U_fill(candidates, count, U_fill_loop(candidates, count, 1, selected))
    ELSE selected

\* BrainGymUtils._ensure_variety
U_ensure_variety(candidates, count) ==
    IF Len(candidates) <= count THEN candidates
    ELSE SubSeq(U_fill(candidates, count,
                    U_first_pass(candidates, count, 1, <<>>, {}, {})),
                1, count)

\* LIMIT 50 of get_daily_three's query
DailyThreeLimit == 50

\* the rows get_daily_three's query selects
DailyThreeEligible ==
    {i \in Ids :
        /\ insights[i].status = "pending"
        /\ insights[i].useful_for_daily
        /\ ~insights[i].is_duplicate
        /\ (insights[i].last_shown_date = NullInt
              \/ insights[i].last_shown_date < today)}

\* ORDER BY quality_score DESC, RANDOM() LIMIT 50: every order the query may give
DailyThreeCandidates ==
    {Rows(SubSeq(s, 1, Min(DailyThreeLimit, Len(s)))) :
        s \in Orderings(DailyThreeEligible,
                 {p \in Ids \X Ids :
                     insights[p[1]].quality_score > insights[p[2]].quality_score})}

\* BrainGymUtils.mark_shown, for every row of selected
RECURSIVE U_mark_shown(_, _, _)
U_mark_shown(table, selected, i) ==
    IF i > Len(selected) THEN table
    ELSE U_mark_shown(UpdateRow(table, selected[i].id, [last_shown_date |-> today]),
             selected, i + 1)

\* BrainGymUtils.get_daily_three, called by home()
get_daily_three ==
    \E candidates \in DailyThreeCandidates :
        LET selected == U_ensure_variety(candidates, 3)
        IN /\ insights' = IF Len(candidates) <= 3 THEN insights
                          ELSE U_mark_shown(insights, selected, 1)
           /\ result' = IF Len(candidates) <= 3 THEN candidates ELSE selected
           /\ lastOp' = "get_daily_three"
           /\ raised' = FALSE
           /\ args' = NoArgs
           /\ scored' = <<>>
           /\ loaded' = <<>>
           /\ UNCHANGED <<daily_sessions, today, syntheses, embed_run, session_rows, callers>>

\* an operation that returns no rows: the response of the last selection or
\* search is gone
NoRows ==
    /\ lastOp' = "none"
    /\ result' = <<>>
    /\ raised' = FALSE
    /\ args' = NoArgs
    /\ scored' = <<>>
    /\ loaded' = <<>>
    /\ UNCHANGED <<syntheses, embed_run, session_rows, callers>>

RECURSIVE SumSkips(_, _)
SumSkips(table, i) ==
    IF i > Len(table) THEN 0 ELSE table[i].times_skipped + SumSkips(table, i + 1)

\* the responses, skips and archivings the table shows
ActionsTaken ==
    Cardinality({i \in Ids : insights[i].status = "responded"})
        + Cardinality({i \in Ids : insights[i].archived})
        + SumSkips(insights, 1)

\* the user may respond to, skip or archive one more insight
CanAct == ActionsTaken < MaxActions

\* BrainGymUtils.save_response, called by respond()
save_response ==
    /\ CanAct
    /\ \E id \in Ids :
          insights' = UpdateRow(insights, id, [status |-> "responded"])
    /\ NoRows
    /\ UNCHANGED <<daily_sessions, today, session_rows, callers>>

\* BrainGymUtils.skip_insight, called by skip()
skip_insight ==
    /\ CanAct
    /\ \E id \in Ids :
          insights' = UpdateRow(insights, id,
                          [times_skipped |-> insights[id].times_skipped + 1])
    /\ NoRows
    /\ UNCHANGED <<daily_sessions, today, session_rows, callers>>

\* BrainGymUtils.archive_insight, called by archive()
archive_insight ==
    /\ CanAct
    /\ \E id \in Ids :
          insights' = UpdateRow(insights, id,
                          [archived |-> TRUE, status |-> "archived",
                           useful_for_daily |-> FALSE])
    /\ NoRows
    /\ UNCHANGED <<daily_sessions, today, session_rows, callers>>

TwitterCom == <<"t", "w", "i", "t", "t", "e", "r", ".", "c", "o", "m">>
XCom == <<"x", ".", "c", "o", "m">>
LinkedinCom == <<"l", "i", "n", "k", "e", "d", "i", "n", ".", "c", "o", "m">>
YoutubeCom == <<"y", "o", "u", "t", "u", "b", "e", ".", "c", "o", "m">>
YoutuBe == <<"y", "o", "u", "t", "u", ".", "b", "e">>
GithubCom == <<"g", "i", "t", "h", "u", "b", ".", "c", "o", "m">>
MediumCom == <<"m", "e", "d", "i", "u", "m", ".", "c", "o", "m">>
SubstackCom == <<"s", "u", "b", "s", "t", "a", "c", "k", ".", "c", "o", "m">>
Blog == <<"b", "l", "o", "g">>

\* the content category add() gives a source_url
AddCategory(source_url) ==
    IF source_url # <<>>
    THEN IF Contains(source_url, TwitterCom) \/ Contains(source_url, XCom)
         THEN "social_reference"
         ELSE IF Contains(source_url, LinkedinCom) THEN "social_reference"
         ELSE IF Contains(source_url, YoutubeCom) THEN "video"
         ELSE IF Contains(source_url, GithubCom) THEN "code"
         ELSE "article"
    ELSE "my_note"

\* the source_url values of the daily-practice specification ('' is no URL)
AddUrls == {<<>>, UrlWwwA}

\* the tag lists InsightClassifier.classify gives add()
AddTags == {<<TagStartups>>}

\* add() of app.py: INSERT INTO insights
add ==
    /\ Len(insights) < MaxInsights
    /\ \E source_url \in AddUrls, tags \in AddTags :
          insights' = Append(insights,
              [DefaultRow(Len(insights) + 1) EXCEPT
                  !.content = TextNote,
                  !.source_url = source_url,
                  !.content_category = AddCategory(source_url),
                  !.tags = IF Len(tags) > 0 THEN Join(tags, ",") ELSE <<>>,
                  !.status = "pending",
                  !.quality_score = 7,
                  !.useful_for_daily = TRUE,
                  !.shared_date = today])
    /\ NoRows
    /\ UNCHANGED <<daily_sessions, today, session_rows, callers>>

\* midnight: datetime.now().date() moves on
next_day ==
    /\ today < MaxDay
    /\ today' = today + 1
    /\ NoRows
    /\ UNCHANGED <<insights, daily_sessions, session_rows, callers>>

---------------------------------------------------------------------------
(* database_v2.py: BrainGymDBV2, on the same insights table *)

\* BrainGymDBV2._ensure_variety, first pass, from candidate i on.  A row whose
\* tags are NULL makes insight.get('tags', '').split(',') raise AttributeError.
RECURSIVE V2_first_pass(_, _, _, _, _, _)
V2_first_pass(candidates, count, i, selected, used_types, used_primary_tags) ==
    IF i > Len(candidates) \/ Len(selected) >= count
    THEN [selected |-> selected, raised |-> FALSE]
    ELSE LET insight == candidates[i]
             source_type == insight.source_type
         IN IF insight.tags = NullText
            THEN [selected |-> selected, raised |-> TRUE]
            ELSE LET tags == Split(insight.tags, ",")
                     primary_tag == tags[1]
                 IN IF (source_type = NullText \/ source_type \notin used_types)
                        \/ primary_tag \notin used_primary_tags
                    THEN V2_first_pass(candidates, count, i + 1,
                             Append(selected, insight),
                             IF Truthy(source_type)
                             THEN used_types \cup {source_type} ELSE used_types,
                             IF primary_tag # <<>>
                             THEN used_primary_tags \cup {primary_tag}
                             ELSE used_primary_tags)
                    ELSE V2_first_pass(candidates, count, i + 1, selected,
                             used_types, used_primary_tags)

\* the for loop that fills one slot: the first candidate not yet selected
V2_fill_one(candidates, selected) ==
    LET free == {i \in 1..Len(candidates) : candidates[i] \notin Range(selected)}
    IN IF free = {} THEN selected
       ELSE Append(selected, candidates[CHOOSE i \in free : \A j \in free : i <= j])

\* the while loop around it
RECURSIVE V2_fill(_, _, _)
V2_fill(candidates, count, selected) ==
    IF Len(selected) < count /\ Len(selected) < Len(candidates)
    THEN V2_fill(candidates, count, V2_fill_one(candidates, selected))
    ELSE selected

\* BrainGymDBV2._ensure_variety: the rows selected, or raised
V2_ensure_variety(candidates, count) ==
    IF Len(candidates) <= count THEN [selected |-> candidates, raised |-> FALSE]
    ELSE LET first == V2_first_pass(candidates, count, 1, <<>>, {}, {})
         IN IF first.raised THEN first
            ELSE [selected |-> SubSeq(V2_fill(candidates, count, first.selected),
                                   1, count),
                  raised |-> FALSE]

\* the rows get_daily_insights' query selects
V2_eligible ==
    {i \in Ids :
        /\ ~insights[i].archived
        /\ insights[i].status = "pending"
        /\ (insights[i].last_shown_date = NullInt
              \/ insights[i].last_shown_date # today)}

\* ORDER BY quality_score DESC, times_skipped ASC, RANDOM() LIMIT count * 3
V2_candidates(count) ==
    {Rows(SubSeq(s, 1, Min(count * 3, Len(s)))) :
        s \in Orderings(V2_eligible,
                 {p \in Ids \X Ids :
                     \/ insights[p[1]].quality_score > insights[p[2]].quality_score
                     \/ /\ insights[p[1]].quality_score = insights[p[2]].quality_score
                        /\ insights[p[1]].times_skipped < insights[p[2]].times_skipped})}

\* ','.join(str(i['id']) for i in selected)
V2_join_ids(selected) ==
    Join([i \in 1..Len(selected) |-> IntToStr(selected[i].id)], ",")

\* SELECT * FROM insights WHERE id IN (?, ...), the parameters being the texts
\* insights_shown.split(',') gives: rows in id order
V2_session_rows(insights_shown) ==
    LET insight_ids == Split(insights_shown, ",")
        wanted == {StrToInt(insight_ids[k]) :
                      k \in {j \in 1..Len(insight_ids) : IsDigits(insight_ids[j])}}
        found == {i \in Ids : i \in wanted}
    IN Rows(CHOOSE s \in Orderings(found, {p \in Ids \X Ids : p[1] < p[2]}) : TRUE)

\* an UPDATE that also counts the row as skipped
M_V2_shown == [last_shown_date |-> today, times_skipped |-> 1]

\* UPDATE insights SET last_shown_date = ? of get_daily_insights
V2_shown == [last_shown_date |-> today]

\* the rows stamped with last_shown_date = today
RECURSIVE V2_stamp(_, _, _)
V2_stamp(table, selected, i) ==
    IF i > Len(selected) THEN table
    ELSE V2_stamp(UpdateRow(table, selected[i].id, V2_shown), selected, i + 1)

\* get_daily_insights without the check for today's session
M_V2_has_session == FALSE

\* today's session exists and lists something
V2_has_session == Truthy(daily_sessions[today])

\* BrainGymDBV2.get_daily_insights(count)
get_daily_insights(count) ==
    /\ lastOp' = "get_daily_insights"
    /\ args' = [NoArgs EXCEPT !.limit = count]
    /\ scored' = <<>>
    /\ loaded' = <<>>
    /\ UNCHANGED <<today, syntheses, embed_run, session_rows, callers>>
    /\ IF V2_has_session
       THEN /\ result' = V2_session_rows(daily_sessions[today])
            /\ raised' = FALSE
            /\ UNCHANGED <<insights, daily_sessions, session_rows, callers>>
       ELSE \E candidates \in V2_candidates(count) :
               LET variety == V2_ensure_variety(candidates, count)
               IN IF variety.raised
                  THEN /\ raised' = TRUE
                       /\ result' = <<>>
                       /\ UNCHANGED <<insights, daily_sessions, session_rows, callers>>
                  ELSE /\ raised' = FALSE
                       /\ result' = variety.selected
                       /\ daily_sessions' =
                             [daily_sessions EXCEPT
                                 ![today] = V2_join_ids(variety.selected)]
                       /\ insights' = V2_stamp(insights, variety.selected, 1)

\* BrainGymDBV2.add_response
add_response ==
    /\ CanAct
    /\ \E id \in Ids :
          insights' = UpdateRow(insights, id, [status |-> "responded"])
    /\ NoRows
    /\ UNCHANGED <<daily_sessions, today, session_rows, callers>>

\* BrainGymDBV2.skip_insight
V2_skip_insight ==
    /\ CanAct
    /\ \E id \in Ids :
          insights' = UpdateRow(insights, id,
                          [times_skipped |-> insights[id].times_skipped + 1])
    /\ NoRows
    /\ UNCHANGED <<daily_sessions, today, session_rows, callers>>

\* BrainGymDBV2.archive_insight
V2_archive_insight ==
    /\ CanAct
    /\ \E id \in Ids :
          insights' = UpdateRow(insights, id,
                          [archived |-> TRUE, status |-> "archived"])
    /\ NoRows
    /\ UNCHANGED <<daily_sessions, today, session_rows, callers>>

\* the source_type add_manual_insight gives a source_url
ManualSourceType(source_url) ==
    IF Truthy(source_url)
    THEN IF Contains(source_url, TwitterCom) \/ Contains(source_url, XCom)
         THEN <<"t", "w", "e", "e", "t">>
         ELSE IF Contains(source_url, LinkedinCom)
         THEN <<"l", "i", "n", "k", "e", "d", "i", "n">>
         ELSE IF Contains(source_url, YoutubeCom) \/ Contains(source_url, YoutuBe)
         THEN <<"v", "i", "d", "e", "o">>
         ELSE IF \/ Contains(source_url, MediumCom)
                 \/ Contains(source_url, SubstackCom)
                 \/ Contains(source_url, Blog)
         THEN <<"a", "r", "t", "i", "c", "l", "e">>
         ELSE <<"l", "i", "n", "k">>
    ELSE <<"q", "u", "o", "t", "e">>

\* the arguments (source_url, tags) of add_manual_insight
ManualArgs ==
    {<<NullText, <<>>>>, <<NullText, <<TagHighValue>>>>,
     <<UrlABlog, <<TagHighValue>>>>}

\* BrainGymDBV2.add_manual_insight
add_manual_insight ==
    /\ Len(insights) < MaxManual
    /\ \E manual \in ManualArgs :
          LET source_url == manual[1]
              tags == manual[2]
          IN insights' = Append(insights,
              [DefaultRow(Len(insights) + 1) EXCEPT
                  !.content = TextNote,
                  !.source_url = source_url,
                  !.source_type = ManualSourceType(source_url),
                  !.shared_date = today,
                  !.tags = IF Len(tags) > 0 THEN Join(tags, ",") ELSE NullText,
                  !.quality_score =
                      IF Len(tags) > 0 /\ TagHighValue \in Range(tags) THEN 8 ELSE 5,
                  !.status = "pending"])
    /\ NoRows
    /\ UNCHANGED <<daily_sessions, today, session_rows, callers>>

---------------------------------------------------------------------------
(* search_engine.py: ContentSearchEngine, the topic search *)

StopWords ==
   {<<"t", "h", "e">>, <<"a">>, <<"a", "n">>, <<"a", "n", "d">>,
    <<"o", "r">>, <<"b", "u", "t">>, <<"i", "n">>, <<"o", "n">>,
    <<"a", "t">>, <<"t", "o">>, <<"f", "o", "r">>, <<"o", "f">>,
    <<"w", "i", "t", "h">>, <<"b", "y">>, <<"f", "r", "o", "m">>,
    <<"i", "s">>, <<"a", "r", "e">>, <<"w", "a", "s">>,
    <<"w", "e", "r", "e">>, <<"b", "e">>, <<"b", "e", "e", "n">>,
    <<"b", "e", "i", "n", "g">>, <<"h", "a", "v", "e">>, <<"h", "a", "s">>,
    <<"h", "a", "d">>, <<"d", "o">>, <<"d", "o", "e", "s">>,
    <<"d", "i", "d">>, <<"w", "i", "l", "l">>, <<"w", "o", "u", "l", "d">>,
    <<"s", "h", "o", "u", "l", "d">>, <<"c", "o", "u", "l", "d">>,
    <<"m", "a", "y">>, <<"m", "i", "g", "h", "t">>, <<"m", "u", "s", "t">>,
    <<"i">>, <<"y", "o", "u">>, <<"h", "e">>, <<"s", "h", "e">>,
    <<"i", "t">>, <<"w", "e">>, <<"t", "h", "e", "y">>,
    <<"w", "h", "a", "t">>, <<"w", "h", "i", "c", "h">>, <<"w", "h", "o">>,
    <<"w", "h", "e", "n">>, <<"w", "h", "e", "r", "e">>, <<"w", "h", "y">>,
    <<"h", "o", "w">>, <<"a", "b", "o", "u", "t">>, <<"t", "h", "i", "s">>,
    <<"t", "h", "a", "t">>}

\* re.findall(r'\w+', s): the maximal runs of word characters, from character i
\* on, cur being the run read so far
RECURSIVE FindWords(_, _, _)
FindWords(s, i, cur) ==
    IF i > Len(s) THEN (IF cur = <<>> THEN <<>> ELSE <<cur>>)
    ELSE IF s[i] \in WordChars THEN FindWords(s, i + 1, Append(cur, s[i]))
    ELSE (IF cur = <<>> THEN <<>> ELSE <<cur>>) \o FindWords(s, i + 1, <<>>)

\* ContentSearchEngine._extract_keywords
S_extract_keywords(text) ==
    LET words == FindWords(Lower(text), 1, <<>>)
    IN SelectSeq(words, LAMBDA w : w \notin StopWords /\ Len(w) > 2)

\* ContentSearchEngine._extract_domain: NullText is None
S_extract_domain(url) ==
    IF ~Truthy(url) THEN NullText
    ELSE LET domain == Remove(UrlNetloc(url), WwwDot)
         IN IF domain # <<>> THEN domain ELSE NullText

\* the character that stands for the rest of a long extracted_text
\* (extracted_pad characters, none of which is in any topic)
Filler == <<"~">>

\* the text of the content column, shortened: content_pad more characters
\* follow it
ContentText(insight) ==
    OrEmpty(insight.content) \o (IF insight.content_pad > 0 THEN Filler ELSE <<>>)

\* the text of the extracted_text column, shortened
ExtractedText(insight) ==
    OrEmpty(insight.extracted_text)
        \o (IF insight.extracted_pad > 0 THEN Filler ELSE <<>>)

\* len(insight['extracted_text'])
ExtractedLen(insight) ==
    Len(OrEmpty(insight.extracted_text)) + insight.extracted_pad

\* the number of keywords (with repetitions) found in text
RECURSIVE CountMatches(_, _)
CountMatches(keywords, text) ==
    IF Len(keywords) = 0 THEN 0
    ELSE (IF Contains(text, keywords[1]) THEN 1 ELSE 0)
             + CountMatches(Tail(keywords), text)

\* minimum length of extracted_text that earns the full-content bonus
FullTextLength == 500

\* ContentSearchEngine._calculate_relevance, in tenths.  The row's tags are
\* still the text of the column (or NULL) when search() calls it, so they add
\* nothing to searchable_text, and str(None) is 'None'.
S_calculate_relevance(insight, topic, keywords) ==
    LET searchable_text ==
            Lower(ContentText(insight) \o <<" ">> \o ExtractedText(insight)
                    \o <<" ">> \o OrEmpty(insight.context_message) \o <<" ">>)
        tags_str ==
            Lower(IF insight.tags = NullText THEN <<"N", "o", "n", "e">>
                  ELSE insight.tags)
    IN (IF Contains(searchable_text, Lower(topic)) THEN 50 ELSE 0)
        + CountMatches(keywords, searchable_text) * 5
        + CountMatches(keywords, tags_str) * 20
        + (IF Truthy(insight.extracted_text) /\ ExtractedLen(insight) > FullTextLength
           THEN 10 ELSE 0)
        + (IF insight.quality_score # NullInt /\ insight.quality_score # 0
           THEN insight.quality_score ELSE 0)
        + (IF insight.content_category = "my_note" THEN 15 ELSE 0)

\* search() keeps every row, whatever its score
M_S_relevant(score) == TRUE

\* if score > 0
S_relevant(score) == score > 0

\* [t.strip() for t in insight['tags'].split(',')], or [] for no tags
S_parse_tags(tags) ==
    IF Truthy(tags)
    THEN LET parts == Split(tags, ",")
         IN [k \in 1..Len(parts) |-> Strip(parts[k])]
    ELSE <<>>

\* the dict search() returns for a row: the selected columns, the score, the
\* parsed tags
S_scored_row(insight, score) ==
    [id |-> insight.id,
     content |-> insight.content,
     content_pad |-> insight.content_pad,
     source_url |-> insight.source_url,
     source_type |-> insight.source_type,
     content_category |-> insight.content_category,
     tags |-> S_parse_tags(insight.tags),
     quality_score |-> insight.quality_score,
     extracted_text |-> insight.extracted_text,
     extracted_pad |-> insight.extracted_pad,
     context_message |-> insight.context_message,
     relevance_score |-> score]

\* the ranking key relevance * max(quality, 1)
M_S_sort_key(x) ==
    x.relevance_score * (IF x.quality_score >= 1 THEN x.quality_score ELSE 1)

\* the sort key x['relevance_score'] * (x['quality_score'] or 5), in tenths
S_sort_key(x) ==
    x.relevance_score
        * (IF x.quality_score # NullInt /\ x.quality_score # 0
           THEN x.quality_score ELSE 5)

\* x put into a list sorted by descending key, behind the items whose key is
\* not smaller: list.sort(reverse=True) is stable
S_insert(sorted, x) ==
    LET smaller == {j \in 1..Len(sorted) : S_sort_key(sorted[j]) < S_sort_key(x)}
        at == IF smaller = {} THEN Len(sorted) + 1
              ELSE CHOOSE j \in smaller : \A k \in smaller : j <= k
    IN SubSeq(sorted, 1, at - 1) \o <<x>> \o SubSeq(sorted, at, Len(sorted))

\* scored_insights.sort(key=..., reverse=True)
RECURSIVE S_sort(_, _)
S_sort(items, i) ==
    IF i = 0 THEN <<>> ELSE S_insert(S_sort(items, i - 1), items[i])

\* ContentSearchEngine._ensure_variety, first pass, from item i on
RECURSIVE S_first_pass(_, _, _, _, _, _)
S_first_pass(items, limit, i, selected, used_categories, used_domains) ==
    IF i > Len(items) \/ Len(selected) >= limit THEN selected
    ELSE LET insight == items[i]
             category == insight.content_category
             domain == S_extract_domain(insight.source_url)
         IN IF category \notin used_categories \/ domain \notin used_domains
            THEN S_first_pass(items, limit, i + 1, Append(selected, insight),
                     used_categories \cup {category},
                     IF domain # NullText THEN used_domains \cup {domain}
                     ELSE used_domains)
            ELSE S_first_pass(items, limit, i + 1, selected,
                     used_categories, used_domains)

\* one run of the for loop that fills the remaining slots, from item i on
RECURSIVE S_fill_loop(_, _, _, _)
S_fill_loop(items, limit, i, selected) ==
    IF i > Len(items) THEN selected
    ELSE IF items[i] \notin Range(selected)
    THEN IF Len(selected) + 1 >= limit THEN Append(selected, items[i])
         ELSE S_fill_loop(items, limit, i + 1, Append(selected, items[i]))
    ELSE S_fill_loop(items, limit, i + 1, selected)

\* a variety pass that does not fill the remaining slots
M_S_fill(items, limit, selected) == selected

\* the while loop around it
RECURSIVE S_fill(_, _, _)
S_fill(items, limit, selected) ==
    IF Len(selected) < limit /\ Len(selected) < Len(items)
    THEN S_fill(items, limit, S_fill_loop(items, limit, 1, selected))
    ELSE selected

\* ContentSearchEngine._ensure_variety
S_ensure_variety(items, limit) ==
    IF Len(items) <= limit THEN items
    ELSE LET selected == S_fill(items, limit,
                             S_first_pass(items, limit, 1, <<>>, {}, {}))
         IN SubSeq(selected, 1, Min(limit, Len(selected)))

\* the rows search()'s query selects
S_eligible ==
    {i \in Ids :
        /\ insights[i].useful_for_daily
        /\ insights[i].content_category \notin {"junk", "personal"}}

\* the scored rows of all_insights, in its order, from row i on
RECURSIVE S_score_all(_, _, _, _)
S_score_all(all_insights, topic, keywords, i) ==
    IF i > Len(all_insights) THEN <<>>
    ELSE LET score == S_calculate_relevance(all_insights[i], topic, keywords)
         IN (IF S_relevant(score) THEN <<S_scored_row(all_insights[i], score)>>
             ELSE <<>>)
                \o S_score_all(all_insights, topic, keywords, i + 1)

\* ContentSearchEngine.search(topic, limit); the query has no ORDER BY
search(topic, limit) ==
    \E order \in Orderings(S_eligible, {}), keywords \in {S_extract_keywords(topic)} :
      \E scored_insights \in {S_score_all(Rows(order), topic, keywords, 1)} :
           /\ scored' = S_sort(scored_insights, Len(scored_insights))
           /\ result' = S_ensure_variety(scored', limit)
           /\ lastOp' = "search"
           /\ raised' = FALSE
           /\ args' = [NoArgs EXCEPT !.topic = topic, !.limit = limit]
           /\ loaded' = <<>>
           /\ UNCHANGED <<insights, daily_sessions, today, syntheses, embed_run, session_rows, callers>>

\* ContentSearchEngine._ensure_variety(insights, limit) called on its own, on
\* the rows of the library in any order
ensure_variety(limit) ==
    \E order \in Orderings(Ids, {}) :
        LET items == [k \in 1..Len(order) |-> S_scored_row(insights[order[k]], 0)]
        IN /\ scored' = items
           /\ result' = S_ensure_variety(scored', limit)
           /\ lastOp' = "_ensure_variety"
           /\ raised' = FALSE
           /\ args' = [NoArgs EXCEPT !.limit = limit]
           /\ loaded' = <<>>
           /\ UNCHANGED <<insights, daily_sessions, today, syntheses, embed_run, session_rows, callers>>

---------------------------------------------------------------------------
(* content_app.py: save_note *)

\* keyword_map, in the order of the dict
KeywordMap ==
   <<<<<<"s", "t", "a", "r", "t", "u", "p">>, <<"s", "t", "a", "r", "t", "u", "p", "s">>>>,
     <<<<"b", "u", "s", "i", "n", "e", "s", "s">>, <<"b", "u", "s", "i", "n", "e", "s", "s">>>>,
     <<<<"p", "r", "o", "d", "u", "c", "t">>, <<"p", "r", "o", "d", "u", "c", "t">>>>,
     <<<<"m", "a", "r", "k", "e", "t", "i", "n", "g">>, <<"m", "a", "r", "k", "e", "t", "i", "n", "g">>>>,
     <<<<"s", "a", "l", "e", "s">>, <<"s", "a", "l", "e", "s">>>>,
     <<<<"g", "r", "o", "w", "t", "h">>, <<"g", "r", "o", "w", "t", "h">>>>,
     <<<<"t", "e", "a", "m">>, <<"t", "e", "a", "m", "s">>>>,
     <<<<"h", "i", "r", "i", "n", "g">>, <<"h", "i", "r", "i", "n", "g">>>>,
     <<<<"f", "u", "n", "d">>, <<"f", "u", "n", "d", "r", "a", "i", "s", "i", "n", "g">>>>,
     <<<<"i", "n", "v", "e", "s", "t", "o", "r">>, <<"f", "u", "n", "d", "r", "a", "i", "s", "i", "n", "g">>>>,
     <<<<"p", "r", "i", "c", "i", "n", "g">>, <<"p", "r", "i", "c", "i", "n", "g">>>>,
     <<<<"c", "u", "s", "t", "o", "m", "e", "r">>, <<"c", "u", "s", "t", "o", "m", "e", "r", "s">>>>,
     <<<<"u", "s", "e", "r">>, <<"u", "s", "e", "r", "s">>>>,
     <<<<"d", "e", "s", "i", "g", "n">>, <<"d", "e", "s", "i", "g", "n">>>>,
     <<<<"c", "o", "d", "e">>, <<"c", "o", "d", "i", "n", "g">>>>,
     <<<<"e", "n", "g", "i", "n", "e", "e", "r">>, <<"e", "n", "g", "i", "n", "e", "e", "r", "i", "n", "g">>>>,
     <<<<"a", "i">>, <<"a", "i">>>>,
     <<<<"d", "a", "t", "a">>, <<"d", "a", "t", "a">>>>>>

\* the loop over keyword_map, from entry i on
RECURSIVE NoteTags(_, _, _)
NoteTags(text_lower, i, tags) ==
    IF i > Len(KeywordMap) THEN tags
    ELSE IF Contains(text_lower, KeywordMap[i][1]) /\ KeywordMap[i][2] \notin Range(tags)
    THEN NoteTags(text_lower, i + 1, Append(tags, KeywordMap[i][2]))
    ELSE NoteTags(text_lower, i + 1, tags)

\* shortest note save_note accepts
MinNoteLength == 50
\* a note longer than this gets quality 8
LongNoteLength == 500
\* a note longer than this gets quality 9
VeryLongNoteLength == 1000

\* the notes saved: the text, the number of further characters that follow it,
\* the owner and the trial key
NoteArgs ==
    {<<TextStartupsWin, 50, 1, NoTrialKey>>,
     <<TextStartupsWin, 50, 2, NoTrialKey>>,
     <<TextStartupsWin, 50, NullInt, "t1">>,
     <<TextStartupsWin, 50, NullInt, NoTrialKey>>,
     <<TextNote, 0, 1, NoTrialKey>>}

\* save_note(text, '', user_id, trial_key); the insights table has the columns
\* user_id and trial_key
save_note ==
    /\ Len(insights) < MaxNotes
    /\ \E note \in NoteArgs :
          LET text == note[1]
              pad == note[2]
              length == Len(text) + pad
              stripped == Len(IF pad > 0 THEN LStrip(text) ELSE Strip(text)) + pad
              tags == NoteTags(Lower(text), 1, <<>>)
              quality == IF length > VeryLongNoteLength THEN 9
                         ELSE IF length > LongNoteLength THEN 8 ELSE 7
          IN IF stripped < MinNoteLength
             THEN UNCHANGED insights
             ELSE insights' = Append(insights,
                      [DefaultRow(Len(insights) + 1) EXCEPT
                          !.content = text,
                          !.content_pad = pad,
                          !.source_type = <<"m", "y", "_", "n", "o", "t", "e">>,
                          !.content_category = "my_note",
                          !.shared_date = today,
                          !.context_message = <<>>,
                          !.quality_score = quality,
                          !.useful_for_daily = TRUE,
                          !.tags = IF Len(tags) > 0 THEN Join(tags, ",") ELSE NullText,
                          !.user_id = note[3],
                          !.trial_key = note[4]])
    /\ NoRows
    /\ UNCHANGED <<daily_sessions, today, session_rows, callers>>

---------------------------------------------------------------------------
(* embeddings.py: EmbeddingEngine *)

\* no embedding: generate_embedding returned None
NoEmbedding == <<>>

\* the vectors the embedding model answers with
Vectors == {<<1, 0>>, <<3, 4>>}

\* json.dumps of a list of numbers
RECURSIVE DumpsFrom(_, _)
DumpsFrom(v, i) ==
    IF i > Len(v) THEN <<>>
    ELSE (IF i > 1 THEN <<",", " ">> ELSE <<>>) \o IntToStr(v[i]) \o DumpsFrom(v, i + 1)

json_dumps(v) == <<"[">> \o DumpsFrom(v, 1) \o <<"]">>

\* whether json.loads accepts the text as a list of numbers
json_valid(text) ==
    /\ Len(text) >= 2
    /\ text[1] = "[" /\ text[Len(text)] = "]"
    /\ LET inner == SubSeq(text, 2, Len(text) - 1)
           parts == Split(inner, ",")
       IN Strip(inner) = <<>> \/ \A k \in 1..Len(parts) : IsDigits(Strip(parts[k]))

\* json.loads of such a text
json_loads(text) ==
    LET inner == SubSeq(text, 2, Len(text) - 1)
        parts == Split(inner, ",")
    IN IF Strip(inner) = <<>> THEN <<>>
       ELSE [k \in 1..Len(parts) |-> StrToInt(Strip(parts[k]))]

\* sum(x * y for x, y in zip(a, b))
RECURSIVE Dot(_, _, _)
Dot(a, b, i) ==
    IF i > Min(Len(a), Len(b)) THEN 0 ELSE a[i] * b[i] + Dot(a, b, i + 1)

\* n ** 0.5, for the norms of Vectors
Sqrt(n) == CHOOSE r \in 0..n : r * r <= n /\ (r + 1) * (r + 1) > n

\* the float nan, which is no number of the model
NaN == 0 - 999

\* the branch of cosine_similarity without numpy, in 25ths
cosine_fallback(a, b) ==
    LET norm_a == Sqrt(Dot(a, a, 1))
        norm_b == Sqrt(Dot(b, b, 1))
    IN IF norm_a = 0 \/ norm_b = 0 THEN 0
       ELSE (25 * Dot(a, b, 1)) \div (norm_a * norm_b)

\* the branch with numpy, for vectors of one length, in 25ths: numpy divides
\* 0.0 by 0.0 to nan (with a warning), and float() keeps the nan
cosine_numpy(a, b) ==
    LET norms == Sqrt(Dot(a, a, 1)) * Sqrt(Dot(b, b, 1))
    IN IF norms = 0 THEN NaN
       ELSE (25 * Dot(a, b, 1)) \div norms

\* EmbeddingEngine.cosine_similarity, in a build with or without numpy
cosine_similarity(a, b, has_numpy) ==
    IF has_numpy THEN cosine_numpy(a, b) ELSE cosine_fallback(a, b)

\* largest component of the vectors cosine_similarity is applied to
MaxComponent == 4

\* the vectors of whole norm with components up to MaxComponent
CosineVectors ==
    {v \in (0..MaxComponent) \X (0..MaxComponent) :
        Sqrt(Dot(v, v, 1)) * Sqrt(Dot(v, v, 1)) = Dot(v, v, 1)}

\* a query that selects every useful row, embedded or not
M_EmbedPending == {i \in Ids : insights[i].useful_for_daily}

\* the rows embed_all_insights selects
EmbedPending ==
    {i \in Ids : /\ insights[i].useful_for_daily
                 /\ insights[i].embedding \in {NullText, <<>>}}

\* shortest text embed_all_insights embeds
MinEmbedLength == 20

\* len(text) of text = (extracted_text or content or "").strip()
EmbedTextLength(insight) ==
    IF Truthy(insight.extracted_text)
    THEN Len(LStrip(insight.extracted_text)) + insight.extracted_pad
    ELSE Len(IF insight.content_pad > 0 THEN LStrip(OrEmpty(insight.content))
             ELSE Strip(OrEmpty(insight.content))) + insight.content_pad

\* EmbeddingEngine.embed_all_insights: generate_embedding answers each text
\* with a vector, or with None when the request fails
embed_all_insights ==
    /\ EmbedPending # {}
    /\ \E generated \in [EmbedPending -> Vectors \cup {NoEmbedding}] :
          insights' = [i \in Ids |->
              IF /\ i \in EmbedPending
                 /\ EmbedTextLength(insights[i]) >= MinEmbedLength
                 /\ generated[i] # NoEmbedding
              THEN [insights[i] EXCEPT !.embedding = json_dumps(generated[i])]
              ELSE insights[i]]
    /\ NoRows
    /\ UNCHANGED <<daily_sessions, today, session_rows, callers>>

\* runs of embed_all_insights the step-by-step specification starts
MaxRuns == 1

\* (i + 1) % 10 == 0: the items between two commits of the loop
CommitEvery == 10

\* the rows of embed_all_insights' query, ORDER BY id
EmbedRows ==
    SelectSeq([id \in 1..Len(insights) |-> id], LAMBDA id : id \in EmbedPending)

\* embed_all_insights up to its loop, for an engine with a client: the query
\* is run, no UPDATE is pending
embed_begin ==
    /\ ~embed_run.active
    /\ embed_run.runs < MaxRuns
    /\ embed_run' = [active |-> TRUE, rows |-> EmbedRows, i |-> 0,
                     uncommitted |-> <<>>, runs |-> embed_run.runs + 1]
    /\ lastOp' = "none"
    /\ result' = <<>>
    /\ raised' = FALSE
    /\ args' = NoArgs
    /\ scored' = <<>>
    /\ loaded' = <<>>
    /\ UNCHANGED <<insights, daily_sessions, today, syntheses, session_rows, callers>>

\* one pass of the for loop, for item i (counted from 0); answers are the
\* values generate_embedding may return for the text
embed_item(answers) ==
    /\ embed_run.active
    /\ embed_run.i < Len(embed_run.rows)
    /\ LET i == embed_run.i
           id == embed_run.rows[i + 1]
       IN IF EmbedTextLength(insights[id]) < MinEmbedLength
          THEN /\ embed_run' = [embed_run EXCEPT !.i = i + 1]
               /\ UNCHANGED insights
          ELSE \E embedding \in answers :
                 IF embedding = NoEmbedding
                 THEN /\ embed_run' = [embed_run EXCEPT !.i = i + 1]
                      /\ UNCHANGED insights
                 ELSE /\ insights' = UpdateRow(insights, id,
                                         [embedding |-> json_dumps(embedding)])
                      /\ embed_run' =
                            [embed_run EXCEPT
                               !.i = i + 1,
                               !.uncommitted =
                                  IF (i + 1) % CommitEvery = 0 THEN <<>>
                                  ELSE Append(embed_run.uncommitted,
                                         [id |-> id, was |-> insights[id].embedding])]
    /\ lastOp' = "none"
    /\ result' = <<>>
    /\ raised' = FALSE
    /\ args' = NoArgs
    /\ scored' = <<>>
    /\ loaded' = <<>>
    /\ UNCHANGED <<daily_sessions, today, syntheses, session_rows, callers>>

\* the commit and close after the loop
embed_end ==
    /\ embed_run.active
    /\ embed_run.i = Len(embed_run.rows)
    /\ embed_run' = [NoRun EXCEPT !.runs = embed_run.runs]
    /\ lastOp' = "none"
    /\ result' = <<>>
    /\ raised' = FALSE
    /\ args' = NoArgs
    /\ scored' = <<>>
    /\ loaded' = <<>>
    /\ UNCHANGED <<insights, daily_sessions, today, syntheses, session_rows, callers>>

\* the UPDATEs of the open transaction undone, from the last one back
RECURSIVE RollBack(_, _, _)
RollBack(table, uncommitted, k) ==
    IF k = 0 THEN table
    ELSE RollBack(UpdateRow(table, uncommitted[k].id,
                      [embedding |-> uncommitted[k].was]), uncommitted, k - 1)

\* the process is interrupted during the loop: the open transaction is lost
embed_interrupt ==
    /\ embed_run.active
    /\ insights' = RollBack(insights, embed_run.uncommitted,
                        Len(embed_run.uncommitted))
    /\ embed_run' = [NoRun EXCEPT !.runs = embed_run.runs]
    /\ lastOp' = "none"
    /\ result' = <<>>
    /\ raised' = FALSE
    /\ args' = NoArgs
    /\ scored' = <<>>
    /\ loaded' = <<>>
    /\ UNCHANGED <<daily_sessions, today, syntheses, session_rows, callers>>

\* a filter that tests the owner before the session token
M_where_extra(insight, user_id, trial_key) ==
    IF user_id # NullInt
    THEN insight.user_id = user_id \/ insight.user_id = NullInt
    ELSE IF trial_key # NoTrialKey THEN insight.trial_key = trial_key
    ELSE TRUE

\* where_extra: " AND trial_key = ?" when a trial key is passed, else
\* " AND (user_id = ? OR user_id IS NULL)" when a user id is passed
where_extra(insight, user_id, trial_key) ==
    IF trial_key # NoTrialKey THEN insight.trial_key = trial_key
    ELSE IF user_id # NullInt
    THEN insight.user_id = user_id \/ insight.user_id = NullInt
    ELSE TRUE

\* a query that loads every row with an embedding, in the scope or not flagged
M_E_eligible(user_id, trial_key) ==
    {i \in Ids :
        /\ insights[i].embedding \notin {NullText, <<>>}
        /\ where_extra(insights[i], user_id, trial_key)}

\* the rows semantic_search's query selects
E_eligible(user_id, trial_key) ==
    {i \in Ids :
        /\ insights[i].useful_for_daily
        /\ insights[i].embedding \notin {NullText, <<>>}
        /\ where_extra(insights[i], user_id, trial_key)}

\* the dict semantic_search returns for a row
E_result_row(insight, sim) ==
    [id |-> insight.id,
     content |-> insight.content,
     content_pad |-> insight.content_pad,
     extracted_text |-> insight.extracted_text,
     extracted_pad |-> insight.extracted_pad,
     source_url |-> insight.source_url,
     source_type |-> insight.source_type,
     content_category |-> insight.content_category,
     tags |-> insight.tags,
     quality_score |-> insight.quality_score,
     shared_date |-> insight.shared_date,
     embedding |-> insight.embedding,
     similarity_score |-> sim]

\* the loop over the loaded rows, from row i on
RECURSIVE E_results(_, _, _, _)
E_results(rows, query_embedding, i, has_numpy) ==
    IF i > Len(rows) THEN <<>>
    ELSE (IF json_valid(rows[i].embedding)
          THEN <<E_result_row(rows[i],
                     cosine_similarity(query_embedding,
                         json_loads(rows[i].embedding), has_numpy))>>
          ELSE <<>>)
            \o E_results(rows, query_embedding, i + 1, has_numpy)

\* a sort that puts x before the items of equal similarity
M_E_insert(sorted, x) ==
    LET smaller == {j \in 1..Len(sorted) :
                        sorted[j].similarity_score <= x.similarity_score}
        at == IF smaller = {} THEN Len(sorted) + 1
              ELSE CHOOSE j \in smaller : \A k \in smaller : j <= k
    IN SubSeq(sorted, 1, at - 1) \o <<x>> \o SubSeq(sorted, at, Len(sorted))

\* x put into a list sorted by descending similarity, behind the items whose
\* similarity is not smaller: list.sort(reverse=True) is stable
E_insert(sorted, x) ==
    LET smaller == {j \in 1..Len(sorted) :
                        sorted[j].similarity_score < x.similarity_score}
        at == IF smaller = {} THEN Len(sorted) + 1
              ELSE CHOOSE j \in smaller : \A k \in smaller : j <= k
    IN SubSeq(sorted, 1, at - 1) \o <<x>> \o SubSeq(sorted, at, Len(sorted))

\* results.sort(key=lambda x: x["similarity_score"], reverse=True)
RECURSIVE E_sort(_, _)
E_sort(items, i) ==
    IF i = 0 THEN <<>> ELSE E_insert(E_sort(items, i - 1), items[i])

\* the owners and trial keys semantic_search is called with
SearchScopes ==
    {<<NullInt, NoTrialKey>>, <<1, NoTrialKey>>, <<NullInt, "t1">>, <<1, "t1">>}

\* EmbeddingEngine.semantic_search(query, user_id, trial_key, limit):
\* generate_embedding answers the query with a vector or with None
semantic_search(user_id, trial_key, limit) ==
    \E query_embedding \in Vectors \cup {NoEmbedding} :
       IF query_embedding = NoEmbedding
       THEN /\ result' = <<>>
            /\ loaded' = <<>>
            /\ lastOp' = "semantic_search"
            /\ raised' = FALSE
            /\ args' = [NoArgs EXCEPT !.limit = limit, !.user_id = user_id,
                                      !.trial_key = trial_key, !.embedded = FALSE]
            /\ scored' = <<>>
            /\ UNCHANGED <<insights, daily_sessions, today, syntheses, embed_run, session_rows, callers>>
       ELSE \E order \in Orderings(E_eligible(user_id, trial_key),
                        {p \in Ids \X Ids :
                            insights[p[1]].shared_date > insights[p[2]].shared_date}) :
             \E results \in {E_results(Rows(order), query_embedding, 1, has_numpy) :
                                has_numpy \in BOOLEAN} :
               /\ loaded' = order
               /\ result' = LET sorted == E_sort(results, Len(results))
                            IN SubSeq(sorted, 1, Min(limit, Len(sorted)))
               /\ lastOp' = "semantic_search"
               /\ raised' = FALSE
               /\ args' = [NoArgs EXCEPT !.limit = limit, !.user_id = user_id,
                                         !.trial_key = trial_key]
               /\ scored' = <<>>
               /\ UNCHANGED <<insights, daily_sessions, today, syntheses, embed_run, session_rows, callers>>

\* a call of EmbeddingEngine.cosine_similarity(a, b)
cosine(a, b) ==
    \E has_numpy \in BOOLEAN :
      /\ result' = <<cosine_similarity(a, b, has_numpy)>>
      /\ lastOp' = "cosine_similarity"
      /\ raised' = FALSE
      /\ args' = [a |-> a, b |-> b, has_numpy |-> has_numpy]
      /\ scored' = <<>>
      /\ loaded' = <<>>
      /\ UNCHANGED <<insights, daily_sessions, today, syntheses, embed_run, session_rows, callers>>

---------------------------------------------------------------------------
(* query_engine.py: QueryEngine *)

\* the types classify_query's prompt asks for
QueryTypes == {"recall", "synthesis", "pattern", "decision", "generate", "explore"}

\* the queries asked
Queries == {TopicStartups, TopicTheArt}

\* the intent a reply states
ReplyIntent == <<"f", "i", "n", "d">>

\* what self.client.messages.create, re.search(r'\{.*\}') and json.loads make
\* of a call of the completion service: the call or json.loads raises
\* ("failed"), the text holds no {...} ("prose"), or the {...} is the JSON of
\* an object ("object").  An object is a function of its keys; it may
\* state any type, or none.
Replies ==
    {[kind |-> "failed"], [kind |-> "prose"]}
    \cup {[kind |-> "object",
           value |-> [type |-> t, intent |-> ReplyIntent, key_concepts |-> <<>>,
                      timeframe |-> "all_time", output_format |-> "text"]]
             : t \in QueryTypes \cup {"summary"}}
    \cup {[kind |-> "object", value |-> [intent |-> ReplyIntent]]}

\* the reply of a call that is not made
NoReply == [kind |-> "none"]

\* a fallback whose intent is not the query
M_FallbackClassification(query) ==
    [type |-> "recall", intent |-> <<>>, key_concepts |-> <<>>,
     timeframe |-> "all_time", output_format |-> "text"]

\* the classification classify_query returns without a usable reply
FallbackClassification(query) ==
    [type |-> "recall", intent |-> query, key_concepts |-> <<>>,
     timeframe |-> "all_time", output_format |-> "text"]

\* the value of QueryEngine.classify_query(query), for an engine with or
\* without client and the reply of its call
Classification(query, client, reply) ==
    IF ~client THEN FallbackClassification(query)
    ELSE IF reply.kind = "object" THEN reply.value
    ELSE FallbackClassification(query)

\* the replies an engine can get: none without client
RepliesOf(client) == IF client THEN Replies ELSE {NoReply}

\* QueryEngine.classify_query(query)
classify_query(query) ==
    \E client \in BOOLEAN :
      \E reply \in RepliesOf(client) :
        /\ result' = <<Classification(query, client, reply)>>
        /\ lastOp' = "classify_query"
        /\ raised' = FALSE
        /\ args' = [query |-> query, client |-> client, reply |-> reply]
        /\ scored' = <<>>
        /\ loaded' = <<>>
        /\ UNCHANGED <<insights, daily_sessions, today, syntheses, embed_run, session_rows, callers>>

\* classification.get("type", "recall")
QueryType(classification) ==
    IF "type" \in DOMAIN classification THEN classification.type ELSE "recall"

\* items[:n]
Take(items, n) == SubSeq(items, 1, Min(n, Len(items)))

\* limit of route_query's semantic search
RouteLimit == 20
\* insights handle_recall passes on
RecallTop == 5
\* insights handle_synthesis passes on
SynthesisTop == 15
\* insights handle_pattern passes on
PatternTop == 20
\* insights handle_decision passes on
DecisionTop == 15
\* insights handle_generate passes on
GenerateTop == 10
\* characters of the topic handle_generate passes on
TopicLength == 200
\* size of handle_explore's sample
SampleSize == 10
\* insights of one category in the sample
SamplePerCategory == 2

\* the rows semantic_search(query, user_id, trial_key, limit) returns when the
\* query's embedding is query_embedding and the query loads the rows in order
SemanticResults(order, query_embedding, limit, has_numpy) ==
    IF query_embedding = NoEmbedding THEN <<>>
    ELSE LET results == E_results(Rows(order), query_embedding, 1, has_numpy)
         IN Take(E_sort(results, Len(results)), limit)

\* the text of a response: what it says and the insights whose context
\* (_build_context) it quotes
FallbackText(says, items) == [says |-> says, context |-> IdsSeq(items)]

\* the text the completion service answers with
CompletionText == [says |-> "completion", context |-> <<>>]

\* a handler raised: route_query returns nothing
Raised(table) == [raised |-> TRUE, response |-> <<>>, syntheses |-> table]

\* a handler returned response
Returned(response, table) ==
    [raised |-> FALSE, response |-> <<response>>, syntheses |-> table]

\* QueryEngine._save_synthesis: the table with the new row
SaveSynthesis(table, query, synthesis_text, ids, user_id) ==
    Append(table, [id |-> Len(table) + 1,
                   user_id |-> user_id,
                   query |-> query,
                   synthesis_text |-> synthesis_text,
                   source_insights |-> json_dumps(ids),
                   edited_text |-> NullText])

\* a recall handler that saves its answer as a synthesis
M_handle_recall(query, relevant, client, completion, table) ==
    LET top_insights == Take(relevant, RecallTop)
    IN IF client /\ completion = "failed" THEN Raised(table)
       ELSE Returned([type |-> "recall", response |-> CompletionText,
                      insights |-> top_insights, query |-> query],
                     SaveSynthesis(table, query, CompletionText,
                                   IdsSeq(top_insights), 1))

\* QueryEngine.handle_recall; completion is the outcome of its call of the
\* completion service
handle_recall(query, relevant, client, completion, table) ==
    LET top_insights == Take(relevant, RecallTop)
    IN IF ~client
       THEN Returned([type |-> "recall",
                      response |-> FallbackText("No AI configured", top_insights),
                      insights |-> top_insights, query |-> query], table)
       ELSE IF completion = "failed" THEN Raised(table)
       ELSE Returned([type |-> "recall", response |-> CompletionText,
                      insights |-> top_insights, query |-> query], table)

\* QueryEngine.handle_synthesis
handle_synthesis(query, relevant, client, completion, user_id, table) ==
    LET top_insights == Take(relevant, SynthesisTop)
        synthesis_text == IF ~client
                          THEN FallbackText("AI not configured", top_insights)
                          ELSE CompletionText
    IN IF client /\ completion = "failed" THEN Raised(table)
       ELSE Returned([type |-> "synthesis", response |-> synthesis_text,
                      insights |-> top_insights,
                      synthesis_id |-> Len(table) + 1, query |-> query],
                     SaveSynthesis(table, query, synthesis_text,
                                   IdsSeq(top_insights), user_id))

\* QueryEngine.handle_pattern
handle_pattern(query, relevant, client, completion, table) ==
    LET top_insights == Take(relevant, PatternTop)
    IN IF ~client
       THEN Returned([type |-> "pattern",
                      response |-> [says |-> "AI not configured",
                                    context |-> <<Len(top_insights)>>],
                      insights |-> top_insights, query |-> query], table)
       ELSE IF completion = "failed" THEN Raised(table)
       ELSE Returned([type |-> "pattern", response |-> CompletionText,
                      insights |-> top_insights, query |-> query], table)

\* QueryEngine.handle_decision
handle_decision(query, relevant, client, completion, table) ==
    LET top_insights == Take(relevant, DecisionTop)
    IN IF ~client
       THEN Returned([type |-> "decision",
                      response |-> [says |-> "AI not configured", context |-> <<>>],
                      insights |-> top_insights, query |-> query], table)
       ELSE IF completion = "failed" THEN Raised(table)
       ELSE Returned([type |-> "decision", response |-> CompletionText,
                      insights |-> top_insights, query |-> query], table)

\* a generate handler that passes every search result on
M_handle_generate(query, relevant, classification, table) ==
    LET topic == IF "intent" \in DOMAIN classification
                 THEN classification.intent ELSE query
    IN Returned([type |-> "generate", redirect |-> "/",
                 topic |-> IF Len(topic) > 0 THEN Take(topic, TopicLength) ELSE query,
                 insights |-> relevant], table)

\* QueryEngine.handle_generate: it calls no service
handle_generate(query, relevant, classification, table) ==
    LET topic == IF "intent" \in DOMAIN classification
                 THEN classification.intent ELSE query
    IN Returned([type |-> "generate", redirect |-> "/",
                 topic |-> IF Len(topic) > 0 THEN Take(topic, TopicLength) ELSE query,
                 insights |-> Take(relevant, GenerateTop)], table)

\* insight.get("content_category") or "other"
SampleCategory(insight) ==
    IF insight.content_category = "" THEN "other" ELSE insight.content_category

\* the keys of by_category, in the order of their first item
RECURSIVE CategoriesOf(_, _, _)
CategoriesOf(items, i, seen) ==
    IF i > Len(items) THEN seen
    ELSE IF \E k \in 1..Len(seen) : seen[k] = SampleCategory(items[i])
    THEN CategoriesOf(items, i + 1, seen)
    ELSE CategoriesOf(items, i + 1, Append(seen, SampleCategory(items[i])))

\* the loop of _get_diverse_sample over the categories, from category c on
RECURSIVE SampleFrom(_, _, _, _, _)
SampleFrom(items, cats, c, n, sample) ==
    IF c > Len(cats) THEN sample
    ELSE LET group == SelectSeq(items, LAMBDA x : SampleCategory(x) = cats[c])
             more == sample \o Take(group, SamplePerCategory)
         IN IF Len(more) >= n THEN more
            ELSE SampleFrom(items, cats, c + 1, n, more)

\* QueryEngine._get_diverse_sample(insights, n)
get_diverse_sample(items, n) ==
    Take(SampleFrom(items, CategoriesOf(items, 1, <<>>), 1, n, <<>>), n)

\* QueryEngine._get_library_stats: the counts (top_topics is left out)
get_library_stats ==
    LET useful == {i \in Ids : insights[i].useful_for_daily}
        In(category) ==
            Cardinality({i \in useful : insights[i].content_category = category})
    IN [total |-> Cardinality(useful),
        articles |-> In("article"),
        notes |-> In("my_note"),
        videos |-> In("video"),
        social |-> In("social_reference")]

\* QueryEngine.handle_explore: the response has a sample, no insights
handle_explore(query, relevant, client, completion, table) ==
    LET stats == get_library_stats
        sample == get_diverse_sample(relevant, SampleSize)
    IN IF ~client
       THEN Returned([type |-> "explore",
                      response |-> [says |-> "Your library has",
                                    context |-> <<stats.total>>],
                      stats |-> stats, sample |-> sample, query |-> query], table)
       ELSE IF completion = "failed" THEN Raised(table)
       ELSE Returned([type |-> "explore", response |-> CompletionText,
                      stats |-> stats, sample |-> sample, query |-> query], table)

\* a chain of ifs that ends in the explore handler
M_HandlerOf(query_type) ==
    CASE query_type = "recall" -> "handle_recall"
      [] query_type = "synthesis" -> "handle_synthesis"
      [] query_type = "pattern" -> "handle_pattern"
      [] query_type = "decision" -> "handle_decision"
      [] query_type = "generate" -> "handle_generate"
      [] OTHER -> "handle_explore"

\* the chain of ifs of route_query: the handler it returns the call of
HandlerOf(query_type) ==
    CASE query_type = "recall" -> "handle_recall"
      [] query_type = "synthesis" -> "handle_synthesis"
      [] query_type = "pattern" -> "handle_pattern"
      [] query_type = "decision" -> "handle_decision"
      [] query_type = "generate" -> "handle_generate"
      [] query_type = "explore" -> "handle_explore"
      [] OTHER -> "handle_recall"

\* the call of that handler
Dispatch(query, relevant, classification, client, completion, user_id, table) ==
    LET handler == HandlerOf(QueryType(classification))
    IN CASE handler = "handle_recall" ->
              handle_recall(query, relevant, client, completion, table)
         [] handler = "handle_synthesis" ->
              handle_synthesis(query, relevant, client, completion, user_id, table)
         [] handler = "handle_pattern" ->
              handle_pattern(query, relevant, client, completion, table)
         [] handler = "handle_decision" ->
              handle_decision(query, relevant, client, completion, table)
         [] handler = "handle_generate" ->
              handle_generate(query, relevant, classification, table)
         [] OTHER -> handle_explore(query, relevant, client, completion, table)

\* the outcomes of a handler's call of the completion service
Completions(client) == IF client THEN {"ok", "failed"} ELSE {"none"}

\* QueryEngine.route_query(query, user_id, trial_key)
route_query(query, user_id, trial_key) ==
    \E client \in BOOLEAN, query_embedding \in Vectors \cup {NoEmbedding} :
      \E reply \in RepliesOf(client), completion \in Completions(client),
         order \in Orderings(E_eligible(user_id, trial_key),
                     {p \in Ids \X Ids :
                         insights[p[1]].shared_date > insights[p[2]].shared_date}) :
        \E classification \in {Classification(query, client, reply)},
           relevant \in {SemanticResults(order, query_embedding, RouteLimit, has_numpy) :
                            has_numpy \in BOOLEAN} :
          \E out \in {Dispatch(query, relevant, classification, client,
                               completion, user_id, syntheses)} :
            /\ Len(out.syntheses) <= MaxSyntheses
            /\ syntheses' = out.syntheses
            /\ result' = out.response
            /\ raised' = out.raised
            /\ lastOp' = "route_query"
            /\ args' = [query |-> query, user_id |-> user_id,
                        trial_key |-> trial_key, client |-> client,
                        type |-> QueryType(classification),
                        completion |-> completion,
                        embedded |-> query_embedding # NoEmbedding,
                        calls |-> <<"classify_query", "semantic_search",
                                    HandlerOf(QueryType(classification))>>]
            /\ loaded' = order
            /\ scored' = relevant
            /\ UNCHANGED <<insights, daily_sessions, today, embed_run, session_rows, callers>>

---------------------------------------------------------------------------
(* The libraries of the search checks *)

\* The libraries topic search is checked on: up to MaxLib of these rows

\* the rows of the pool
Pool == 1..11

PoolRow(k, id) ==
    LET row == [DefaultRow(id) EXCEPT !.content = TextNote, !.shared_date = 0]
    IN CASE k = 1 -> [row EXCEPT !.source_url = UrlWwwA, !.content_category = "article",
                                 !.tags = TagStartups, !.quality_score = 9]
         [] k = 2 -> [row EXCEPT !.source_url = UrlABlog, !.content_category = "article",
                                 !.tags = TagStartups, !.quality_score = 3]
         [] k = 3 -> [row EXCEPT !.tags = TagWriting, !.quality_score = 5]
         [] k = 4 -> [row EXCEPT !.content_category = "article",
                                 !.tags = TagStartups, !.quality_score = 9]
         [] k = 5 -> [row EXCEPT !.content_category = "article",
                                 !.tags = TagStartups, !.quality_score = 3]
         [] k = 6 -> [row EXCEPT !.source_url = UrlB, !.content_category = "article",
                                 !.extracted_text = TopicTheArt, !.extracted_pad = 600,
                                 !.tags = TagStartups, !.quality_score = 0]
         [] k = 7 -> [row EXCEPT !.content = TextStartupsWin, !.content_category = "my_note",
                                 !.quality_score = NullInt]
         [] k = 8 -> [row EXCEPT !.tags = TagStartups, !.quality_score = 9,
                                 !.useful_for_daily = FALSE]
         [] k = 9 -> [row EXCEPT !.tags = TagStartups, !.content_category = "junk"]
         [] k = 10 -> [row EXCEPT !.tags = TagWriting, !.quality_score = NullInt]
         [] OTHER -> [row EXCEPT !.source_url = UrlWwwA, !.content_category = "article",
                                 !.tags = TagWriting, !.quality_score = 7]

\* the rows S of the pool as a table, ids in the pool's order
Library(S) ==
    LET order == CHOOSE s \in Orderings(S, {p \in S \X S : p[1] < p[2]}) : TRUE
    IN [i \in 1..Cardinality(S) |-> PoolRow(order[i], i)]

Libraries ==
    {Library(S) : S \in {T \in SUBSET Pool :
                            Cardinality(T) >= 1 /\ Cardinality(T) <= MaxLib}}

\* The libraries semantic search is checked on: up to MaxLib of these notes,
\* saved by save_note and embedded by embed_all_insights
EmbeddedPool == 1..8

EmbeddedRow(k, id) ==
    LET row == [DefaultRow(id) EXCEPT
                   !.content = TextStartupsWin,
                   !.content_pad = 50,
                   !.source_type = <<"m", "y", "_", "n", "o", "t", "e">>,
                   !.content_category = "my_note",
                   !.context_message = <<>>,
                   !.quality_score = 7,
                   !.tags = TagStartups,
                   !.user_id = 1,
                   !.shared_date = 0,
                   !.embedding = json_dumps(<<1, 0>>)]
    IN CASE k = 1 -> row
         [] k = 2 -> [row EXCEPT !.shared_date = 1]
         [] k = 3 -> [row EXCEPT !.embedding = json_dumps(<<3, 4>>)]
         [] k = 4 -> [row EXCEPT !.user_id = NullInt, !.trial_key = "t1",
                                 !.shared_date = 1]
         [] k = 5 -> [row EXCEPT !.user_id = 2, !.embedding = json_dumps(<<3, 4>>)]
         [] k = 6 -> [row EXCEPT !.user_id = NullInt]
         [] k = 7 -> [row EXCEPT !.archived = TRUE, !.status = "archived",
                                 !.useful_for_daily = FALSE]
         [] OTHER -> [row EXCEPT !.embedding = NullText]

\* the rows S of the pool as a table, ids in the pool's order
EmbeddedLibrary(S) ==
    LET order == CHOOSE s \in Orderings(S, {p \in S \X S : p[1] < p[2]}) : TRUE
    IN [i \in 1..Cardinality(S) |-> EmbeddedRow(order[i], i)]

EmbeddedLibraries ==
    {EmbeddedLibrary(S) : S \in {T \in SUBSET EmbeddedPool :
                                    Cardinality(T) >= 1 /\ Cardinality(T) <= MaxLib}}

\* the rows of the libraries the queries are put to
QueryPool == {1, 3, 6, 7}

\* the rows S of the pool as a table shared on different days
QueryLibrary(S) ==
    LET library == EmbeddedLibrary(S)
    IN [i \in 1..Len(library) |-> [library[i] EXCEPT !.shared_date = i]]

QueryLibraries ==
    {QueryLibrary(S) : S \in {T \in SUBSET QueryPool : Cardinality(T) = MaxLib}}

\* rows of the libraries embed_all_insights is run on
MaxEmbedRows == 12

\* a note waiting for its embedding; short notes are below MinEmbedLength
PendingRow(id, short) ==
    [DefaultRow(id) EXCEPT
        !.content = TextStartupsWin,
        !.content_pad = IF short THEN 0 ELSE 50,
        !.source_type = <<"m", "y", "_", "n", "o", "t", "e">>,
        !.content_category = "my_note",
        !.quality_score = 7,
        !.user_id = 1,
        !.shared_date = 0]

\* libraries of MaxEmbedRows notes, none of them short or one of them
PendingLibraries ==
    {[id \in 1..MaxEmbedRows |-> PendingRow(id, id = short)] :
        short \in {0, CommitEvery}}

\* libraries with embedded rows beside rows that wait for an embedding, one
\* of these not useful
StoreLibraries ==
    {QueryLibrary({1, 3, 8}), QueryLibrary({1, 7, 8}),
     [QueryLibrary({1, 7, 8}) EXCEPT ![2].embedding = NullText]}

---------------------------------------------------------------------------
(* The three _ensure_variety, step by step *)

\* items of the lists _ensure_variety is called on
MaxFill == 3

\* runs of the for loop the fill pass is followed through
MaxPasses == 2

\* the three implementations
VarietyImpls == {"search_engine", "utils", "database_v2"}

\* a record of the lists: two rows of one content, category, source and type
\* under different ids, and a row without source and tags of its own
FillRecord(k) ==
    CASE k = 1 -> [PoolRow(1, 1) EXCEPT !.source_type = <<"l", "i", "n", "k">>]
      [] k = 2 -> [PoolRow(1, 2) EXCEPT !.source_type = <<"l", "i", "n", "k">>]
      [] OTHER -> PoolRow(3, 3)

\* the lists: every sequence of up to MaxFill records, equal ones included
FillInputs ==
    UNION {[1..n -> {FillRecord(k) : k \in 1..3}] : n \in 0..MaxFill}

\* the list as the implementation gets it: search() passes its scored rows
FillItems(impl, rows) ==
    IF impl = "search_engine"
    THEN [k \in 1..Len(rows) |-> S_scored_row(rows[k], 0)]
    ELSE rows

\* the first pass of the implementation
FirstPass(impl, items, limit) ==
    CASE impl = "search_engine" ->
            [selected |-> S_first_pass(items, limit, 1, <<>>, {}, {}), raised |-> FALSE]
      [] impl = "utils" ->
            [selected |-> U_first_pass(items, limit, 1, <<>>, {}, {}), raised |-> FALSE]
      [] OTHER -> V2_first_pass(items, limit, 1, <<>>, {}, {})

\* one run of the for loop inside the while loop of the implementation
FillPass(impl, items, limit, selected) ==
    CASE impl = "search_engine" -> S_fill_loop(items, limit, 1, selected)
      [] impl = "utils" -> U_fill_loop(items, limit, 1, selected)
      [] OTHER -> V2_fill_one(items, selected)

\* len(selected) < count and len(selected) < len(candidates)
FillCondition == Len(result) < args.limit /\ Len(result) < Len(scored)

\* _ensure_variety(items, limit) up to its while loop
variety_begin(impl, rows, limit) ==
    /\ lastOp = "none"
    /\ scored' = FillItems(impl, rows)
    /\ args' = [impl |-> impl, limit |-> limit, passes |-> 0]
    /\ IF Len(rows) <= limit
       THEN /\ result' = scored'
            /\ raised' = FALSE
            /\ lastOp' = "returned"
       ELSE LET first == FirstPass(impl, scored', limit)
            IN /\ result' = first.selected
               /\ raised' = first.raised
               /\ lastOp' = IF first.raised THEN "returned" ELSE "fill"
    /\ loaded' = <<>>
    /\ UNCHANGED <<insights, daily_sessions, today, syntheses, embed_run, session_rows, callers>>

\* one turn of the while loop: a run of its for loop
fill_pass ==
    /\ lastOp = "fill"
    /\ FillCondition
    /\ args.passes < MaxPasses
    /\ result' = FillPass(args.impl, scored, args.limit, result)
    /\ args' = [args EXCEPT !.passes = args.passes + 1]
    /\ UNCHANGED <<insights, daily_sessions, today, lastOp, raised, scored, loaded,
                   syntheses, embed_run, session_rows, callers>>

\* the while loop is left: return selected[:limit]
variety_return ==
    /\ lastOp = "fill"
    /\ ~FillCondition
    /\ result' = Take(result, args.limit)
    /\ lastOp' = "returned"
    /\ UNCHANGED <<insights, daily_sessions, today, raised, args, scored, loaded,
                   syntheses, embed_run, session_rows, callers>>

---------------------------------------------------------------------------
(* database_v2.py: concurrent calls of get_daily_insights, statement by     *)
(* statement.  Each call has its own connection; a SELECT outside a         *)
(* transaction reads the committed rows, and the INSERT OR REPLACE, the     *)
(* UPDATEs and the commit of one call form one transaction, which SQLite    *)
(* runs apart from every other writer.                                      *)

\* calls that run at once
MaxCallers == 2

Callers == 1..MaxCallers

\* a call that has not run a statement yet
IdleCaller == [pc |-> "idle", count |-> 0, selected |-> <<>>, returned |-> <<>>,
               raised |-> FALSE, found |-> FALSE]

\* the rows of daily_sessions for the date
SessionsOn(date) ==
    SelectSeq(session_rows, LAMBDA row : row.session_date = date)

\* an INSERT that meets no UNIQUE constraint
M_InsertOrReplace(rows, date, shown) ==
    Append(rows, [id |-> Len(rows) + 1, session_date |-> date,
                  insights_shown |-> shown])

\* INSERT OR REPLACE INTO daily_sessions (session_date, insights_shown):
\* session_date is UNIQUE, the row of the date is deleted before the insert;
\* the id is one more than the largest id
InsertOrReplace(rows, date, shown) ==
    LET largest == IF rows = <<>> THEN 0
                   ELSE CHOOSE n \in {rows[k].id : k \in 1..Len(rows)} :
                           \A k \in 1..Len(rows) : rows[k].id <= n
    IN Append(SelectSeq(rows, LAMBDA row : row.session_date # date),
              [id |-> largest + 1, session_date |-> date, insights_shown |-> shown])

\* the SELECT of today's session and the return of an existing selection
call_check(p, count) ==
    /\ callers[p].pc = "idle"
    /\ LET existing == SessionsOn(today)
       IN IF existing # <<>> /\ Truthy(existing[1].insights_shown)
          THEN callers' = [callers EXCEPT ![p] =
                              [@ EXCEPT !.pc = "done", !.count = count, !.found = TRUE,
                                 !.returned = V2_session_rows(existing[1].insights_shown)]]
          ELSE callers' = [callers EXCEPT ![p] =
                              [@ EXCEPT !.pc = "checked", !.count = count]]
    /\ UNCHANGED <<insights, daily_sessions, today, lastOp, result, raised, args,
                   scored, loaded, syntheses, embed_run, session_rows>>

\* the SELECT of the candidates and _ensure_variety
call_select(p) ==
    /\ callers[p].pc = "checked"
    /\ \E candidates \in V2_candidates(callers[p].count) :
          LET variety == V2_ensure_variety(candidates, callers[p].count)
          IN callers' = [callers EXCEPT ![p] =
                IF variety.raised THEN [@ EXCEPT !.pc = "done", !.raised = TRUE]
                ELSE [@ EXCEPT !.pc = "selected", !.selected = variety.selected]]
    /\ UNCHANGED <<insights, daily_sessions, today, lastOp, result, raised, args,
                   scored, loaded, syntheses, embed_run, session_rows>>

\* the transaction that records the selection, stamps its rows and commits
call_record(p) ==
    /\ callers[p].pc = "selected"
    /\ session_rows' = InsertOrReplace(session_rows, today,
                            V2_join_ids(callers[p].selected))
    /\ insights' = V2_stamp(insights, callers[p].selected, 1)
    /\ callers' = [callers EXCEPT ![p] =
                      [@ EXCEPT !.pc = "done", !.returned = callers[p].selected]]
    /\ UNCHANGED <<daily_sessions, today, lastOp, result, raised, args,
                   scored, loaded, syntheses, embed_run>>

---------------------------------------------------------------------------
(* query_engine.py: the handlers on search results of every length *)

\* the longest sequence of search results a handler is given
MaxResults == 21

\* the lengths of the sequences: around the lengths the handlers cut at
ResultCounts == {n \in 0..MaxResults : n % 5 \in {0, 1}}

\* n search results in the order of semantic_search: rows of different ids
SearchResults(n) ==
    [k \in 1..n |-> E_result_row(EmbeddedRow(1, k),
                                  cosine_similarity(<<1, 0>>, <<1, 0>>, TRUE))]

\* the handler of query_type called as route_query calls it, on the search
\* results held in scored
handle(query_type, client, completion) ==
    \E out \in {Dispatch(TopicStartups, scored,
                          [type |-> query_type, intent |-> TopicStartups],
                          client, completion, 1, syntheses)} :
       /\ Len(out.syntheses) <= MaxSyntheses
       /\ syntheses' = out.syntheses
       /\ result' = out.response
       /\ raised' = out.raised
       /\ lastOp' = "handle"
       /\ args' = [type |-> query_type, client |-> client, completion |-> completion]
       /\ UNCHANGED <<insights, daily_sessions, today, scored, loaded, embed_run, session_rows, callers>>

---------------------------------------------------------------------------
(* deduplicator.py: Deduplicator and run_deduplication, with               *)
(* database_cleaned.py's mark_duplicate                                     *)

\* rows of the libraries deduplication is run on
MaxDedup == 4

\* content_length > 100 in find_content_duplicates' query
MinDedupLength == 100

\* the ids of S in ascending order: ORDER BY id
SortedIds(S) == SelectSeq([id \in 1..Len(insights) |-> id], LAMBDA id : id \in S)

\* the source_url values stored more than once: GROUP BY source_url HAVING count > 1
DuplicatedUrls ==
    {insights[i].source_url : i \in {j \in Ids :
        /\ insights[j].source_url \notin {NullText, <<>>}
        /\ \E k \in Ids : k # j /\ insights[k].source_url = insights[j].source_url}}

\* the group find_url_duplicates builds for url: MIN(id) is the original, the
\* other ids of the url, ordered by id, are its duplicates
UrlGroup(url) ==
    LET ids == {i \in Ids : insights[i].source_url = url}
        original_id == CHOOSE i \in ids : \A j \in ids : i <= j
    IN [type |-> "url", original_id |-> original_id,
        duplicate_ids |-> SortedIds(ids \ {original_id}), url |-> url]

\* Deduplicator.find_url_duplicates: the groups, in every order the GROUP BY
\* may give
find_url_duplicates ==
    {[k \in 1..Len(urls) |-> UrlGroup(urls[k])] : urls \in Orderings(DuplicatedUrls, {})}

\* the column content_length: LENGTH(content)
content_length(insight) == Len(OrEmpty(insight.content)) + insight.content_pad

\* the ids find_content_duplicates' query selects, ordered by id
ContentRows ==
    SortedIds({i \in Ids :
        /\ insights[i].content_category # "junk"
        /\ insights[i].source_url \in {NullText, <<>>}
        /\ content_length(insights[i]) > MinDedupLength})

\* an inner loop that compares with the checked insights too
M_LaterDuplicates(rows, i, checked, similar) ==
    SelectSeq(SubSeq(rows, i + 1, Len(rows)),
              LAMBDA id : <<rows[i], id>> \in similar)

\* the inner loop of find_content_duplicates for insights[i]: the later
\* insights that are not checked and whose similarity to it reaches the
\* threshold; similar holds the pairs whose _similarity does
LaterDuplicates(rows, i, checked, similar) ==
    SelectSeq(SubSeq(rows, i + 1, Len(rows)),
              LAMBDA id : id \notin checked /\ <<rows[i], id>> \in similar)

\* the outer loop of find_content_duplicates, from insights[i] on
RECURSIVE ContentLoop(_, _, _, _, _)
ContentLoop(rows, i, checked, duplicates, similar) ==
    IF i > Len(rows) THEN duplicates
    ELSE IF rows[i] \in checked
    THEN ContentLoop(rows, i + 1, checked, duplicates, similar)
    ELSE LET duplicate_ids == LaterDuplicates(rows, i, checked, similar)
         IN ContentLoop(rows, i + 1, checked \cup Range(duplicate_ids),
                        IF duplicate_ids # <<>>
                        THEN Append(duplicates,
                                    [type |-> "content", original_id |-> rows[i],
                                     duplicate_ids |-> duplicate_ids])
                        ELSE duplicates,
                        similar)

\* Deduplicator.find_content_duplicates(threshold)
find_content_duplicates(similar) == ContentLoop(ContentRows, 1, {}, <<>>, similar)

\* CleanedDatabase.mark_duplicate(duplicate_id, original_id)
mark_duplicate(table, duplicate_id, original_id) ==
    UpdateRow(table, duplicate_id,
              [is_duplicate |-> TRUE, duplicate_of_id |-> original_id,
               has_useful_content |-> FALSE])

\* the loops of Deduplicator.mark_duplicates, from duplicate d of group g on
RECURSIVE mark_duplicates(_, _, _, _)
mark_duplicates(table, duplicates, g, d) ==
    IF g > Len(duplicates) THEN table
    ELSE IF d > Len(duplicates[g].duplicate_ids)
    THEN mark_duplicates(table, duplicates, g + 1, 1)
    ELSE mark_duplicates(mark_duplicate(table, duplicates[g].duplicate_ids[d],
                                        duplicates[g].original_id),
                         duplicates, g, d + 1)

\* the pairs of insights _similarity is asked about: an insight and a later one
ContentPairs ==
    {p \in Range(ContentRows) \X Range(ContentRows) : p[1] < p[2]}

\* run_deduplication(db_path); result keeps all_duplicates
run_deduplication(similar) ==
    \E url_dups \in find_url_duplicates :
       \E all_duplicates \in {url_dups \o find_content_duplicates(similar)} :
          /\ insights' = mark_duplicates(insights, all_duplicates, 1, 1)
          /\ result' = all_duplicates
          /\ lastOp' = "run_deduplication"
          /\ raised' = FALSE
          /\ args' = [similar |-> similar]
          /\ scored' = <<>>
          /\ loaded' = <<>>
          /\ UNCHANGED <<daily_sessions, today, syntheses, embed_run, session_rows, callers>>

\* the rows of the libraries: two urls, a long note, a long note that is junk
DedupKinds == {"a", "b", "note", "junk"}

DedupRow(kind, id) ==
    LET row == [DefaultRow(id) EXCEPT !.content = TextNote, !.content_pad = MinDedupLength,
                                      !.content_category = "my_note"]
    IN CASE kind = "a" -> [row EXCEPT !.source_url = UrlWwwA, !.content_category = "article"]
         [] kind = "b" -> [row EXCEPT !.source_url = UrlB, !.content_category = "article"]
         [] kind = "note" -> row
         [] OTHER -> [row EXCEPT !.content_category = "junk"]

DedupLibraries ==
    UNION {{[i \in 1..n |-> DedupRow(kinds[i], i)] : kinds \in [1..n -> DedupKinds]} :
              n \in 1..MaxDedup}

---------------------------------------------------------------------------
(* The specifications *)

Init ==
    /\ insights = <<>>
    /\ daily_sessions = [d \in 0..MaxDay |-> NoSession]
    /\ today = 0
    /\ lastOp = "none"
    /\ result = <<>>
    /\ raised = FALSE
    /\ args = NoArgs
    /\ scored = <<>>
    /\ loaded = <<>>
    /\ syntheses = <<>>
    /\ embed_run = NoRun
    /\ session_rows = <<>>
    /\ callers = NoCallers

\* the daily practice of app.py over utils.py
Next ==
    \/ add
    \/ get_daily_three
    \/ save_response
    \/ skip_insight
    \/ archive_insight
    \/ next_day

Spec == Init /\ [][Next]_vars

\* the daily practice of database_v2.py
NextV2 ==
    \/ add_manual_insight
    \/ \E count \in 0..MaxCount : get_daily_insights(count)
    \/ add_response
    \/ V2_skip_insight
    \/ V2_archive_insight
    \/ next_day

SpecV2 == Init /\ [][NextV2]_vars

InitSearch ==
    /\ insights \in Libraries
    /\ daily_sessions = [d \in 0..MaxDay |-> NoSession]
    /\ today = 0
    /\ lastOp = "none"
    /\ result = <<>>
    /\ raised = FALSE
    /\ args = NoArgs
    /\ scored = <<>>
    /\ loaded = <<>>
    /\ syntheses = <<>>
    /\ embed_run = NoRun
    /\ session_rows = <<>>
    /\ callers = NoCallers

NextSearch ==
    \/ \E topic \in Topics, limit \in 0..MaxLimit : search(topic, limit)
    \/ \E limit \in 0..MaxLimit : ensure_variety(limit)

SpecSearch == InitSearch /\ [][NextSearch]_vars

NextLibrary ==
    \/ save_note
    \/ archive_insight
    \/ embed_all_insights
    \/ \E topic \in Topics, limit \in 0..MaxLimit : search(topic, limit)
    \/ \E scope \in SearchScopes, limit \in 0..MaxLimit :
          semantic_search(scope[1], scope[2], limit)
    \/ get_daily_three

SpecLibrary == Init /\ [][NextLibrary]_vars

InitSemantic ==
    /\ insights \in EmbeddedLibraries
    /\ daily_sessions = [d \in 0..MaxDay |-> NoSession]
    /\ today = MaxDay
    /\ lastOp = "none"
    /\ result = <<>>
    /\ raised = FALSE
    /\ args = NoArgs
    /\ scored = <<>>
    /\ loaded = <<>>
    /\ syntheses = <<>>
    /\ embed_run = NoRun
    /\ session_rows = <<>>
    /\ callers = NoCallers

NextSemantic ==
    \E scope \in SearchScopes, limit \in 0..MaxLimit :
        semantic_search(scope[1], scope[2], limit)

SpecSemantic == InitSemantic /\ [][NextSemantic]_vars

InitQuery ==
    /\ insights \in QueryLibraries
    /\ daily_sessions = [d \in 0..MaxDay |-> NoSession]
    /\ today = MaxDay
    /\ lastOp = "none"
    /\ result = <<>>
    /\ raised = FALSE
    /\ args = NoArgs
    /\ scored = <<>>
    /\ loaded = <<>>
    /\ syntheses = <<>>
    /\ embed_run = NoRun
    /\ session_rows = <<>>
    /\ callers = NoCallers

\* the query interface of content_app.py beside the daily selection
NextQuery ==
    \/ \E query \in Queries : classify_query(query)
    \/ route_query(TopicStartups, 1, NoTrialKey)
    \/ search(TopicStartups, MaxLimit)
    \/ semantic_search(1, NoTrialKey, MaxLimit)
    \/ get_daily_insights(MaxCount)

SpecQuery == InitQuery /\ [][NextQuery]_vars

NextCosine == \E a \in CosineVectors, b \in CosineVectors : cosine(a, b)

SpecCosine == Init /\ [][NextCosine]_vars

InitEmbed ==
    /\ insights \in PendingLibraries
    /\ daily_sessions = [d \in 0..MaxDay |-> NoSession]
    /\ today = 0
    /\ lastOp = "none"
    /\ result = <<>>
    /\ raised = FALSE
    /\ args = NoArgs
    /\ scored = <<>>
    /\ loaded = <<>>
    /\ syntheses = <<>>
    /\ embed_run = NoRun
    /\ session_rows = <<>>
    /\ callers = NoCallers

\* embed_all_insights step by step, and its interruption
NextEmbed ==
    \/ embed_begin
    \/ embed_item({<<1, 0>>, NoEmbedding})
    \/ embed_end
    \/ embed_interrupt

SpecEmbed == InitEmbed /\ [][NextEmbed]_vars

NextFill ==
    \/ \E impl \in VarietyImpls, rows \in FillInputs, limit \in 0..MaxLimit :
          variety_begin(impl, rows, limit)
    \/ fill_pass
    \/ variety_return

SpecFill == Init /\ [][NextFill]_vars

InitStore ==
    /\ insights \in StoreLibraries
    /\ daily_sessions = [d \in 0..MaxDay |-> NoSession]
    /\ today = 0
    /\ lastOp = "none"
    /\ result = <<>>
    /\ raised = FALSE
    /\ args = NoArgs
    /\ scored = <<>>
    /\ loaded = <<>>
    /\ syntheses = <<>>
    /\ embed_run = NoRun
    /\ session_rows = <<>>
    /\ callers = NoCallers

\* the operations that read or write the embedding column
NextStore ==
    \/ embed_all_insights
    \/ semantic_search(1, NoTrialKey, MaxLimit)
    \/ route_query(TopicStartups, 1, NoTrialKey)

SpecStore == InitStore /\ [][NextStore]_vars

InitRace ==
    /\ insights \in EmbeddedLibraries
    /\ daily_sessions = [d \in 0..MaxDay |-> NoSession]
    /\ today = 0
    /\ lastOp = "none"
    /\ result = <<>>
    /\ raised = FALSE
    /\ args = NoArgs
    /\ scored = <<>>
    /\ loaded = <<>>
    /\ syntheses = <<>>
    /\ embed_run = NoRun
    /\ session_rows = <<>>
    /\ callers = [p \in Callers |-> IdleCaller]

\* the calls of get_daily_insights, their statements in any interleaving
NextRace ==
    \E p \in Callers :
       \/ \E count \in 1..MaxCount : call_check(p, count)
       \/ call_select(p)
       \/ call_record(p)

SpecRace == InitRace /\ [][NextRace]_vars

\* the five handlers that pass insights on, the completion service absent,
\* answering or failing
InitHandlers ==
    /\ insights = <<>>
    /\ daily_sessions = [d \in 0..MaxDay |-> NoSession]
    /\ today = 0
    /\ lastOp = "none"
    /\ result = <<>>
    /\ raised = FALSE
    /\ args = NoArgs
    /\ scored \in {SearchResults(n) : n \in ResultCounts}
    /\ loaded = <<>>
    /\ syntheses = <<>>
    /\ embed_run = NoRun
    /\ session_rows = <<>>
    /\ callers = NoCallers

NextHandlers ==
    \E query_type \in QueryTypes \ {"explore"}, client \in BOOLEAN :
       \E completion \in Completions(client) :
          handle(query_type, client, completion)

SpecHandlers == InitHandlers /\ [][NextHandlers]_vars

InitDedup ==
    /\ insights \in DedupLibraries
    /\ daily_sessions = [d \in 0..MaxDay |-> NoSession]
    /\ today = 0
    /\ lastOp = "none"
    /\ result = <<>>
    /\ raised = FALSE
    /\ args = NoArgs
    /\ scored = <<>>
    /\ loaded = <<>>
    /\ syntheses = <<>>
    /\ embed_run = NoRun
    /\ session_rows = <<>>
    /\ callers = NoCallers

\* runs of run_deduplication, the similarities of each run being any
NextDedup ==
    \E similar \in SUBSET ContentPairs : run_deduplication(similar)

SpecDedup == InitDedup /\ [][NextDedup]_vars

---------------------------------------------------------------------------
(* The claims *)

\* C1: get_daily_three is idempotent within a calendar day: two consecutive
\* calls on the same date, with nothing added, responded to, skipped or
\* archived in between, return the same set of insight ids.
C1_DailyThreeIdempotent ==
    [][(lastOp = "get_daily_three" /\ lastOp' = "get_daily_three"
            /\ today' = today)
          => IdsOf(result') = IdsOf(result)]_vars

\* the ids a session's insights_shown lists
SessionIds(insights_shown) ==
    IF Truthy(insights_shown)
    THEN {i \in Ids : IntToStr(i) \in Range(Split(insights_shown, ","))}
    ELSE {}

\* C2: get_daily_insights persists the day's selection: once a session of the
\* day lists an insight no step of that day changes it, and every call that
\* leaves such a session returns exactly the insights it lists, whatever the
\* count and whatever was skipped, responded to or added in between.
C2_SelectionPersisted ==
    [][/\ (Truthy(daily_sessions[today]) /\ today' = today)
            => daily_sessions'[today] = daily_sessions[today]
       /\ (lastOp' = "get_daily_insights" /\ Truthy(daily_sessions'[today']))
            => (~raised' /\ IdsOf(result') = SessionIds(daily_sessions'[today'])
                         /\ IdsOf(result') # {})]_vars

\* C2's case: a call returned the persisted selection after one of its
\* insights was responded to
C2_Witness ==
    /\ lastOp = "get_daily_insights"
    /\ \E k \in 1..Len(result) : result[k].status = "responded"

\* C4: once archive_insight(x) has been called, no daily selection returns x
C4_ArchivedNeverSelected ==
    lastOp \in {"get_daily_three", "get_daily_insights"}
        => \A k \in 1..Len(result) : ~insights[result[k].id].archived

\* C5: search(T, n) returns at most n insights, each stored insight at most
\* once, and every returned insight has a relevance_score above 0
C5_SearchBounded ==
    lastOp = "search" =>
        /\ Len(result) <= args.limit
        /\ \A j, k \in 1..Len(result) : j # k => result[j].id # result[k].id
        /\ \A k \in 1..Len(result) :
              result[k].id \in Ids /\ result[k].relevance_score > 0

\* a search that left out a row without relevance and cut the rest to its limit
C5_Witness ==
    /\ lastOp = "search"
    /\ args.limit >= 1
    /\ Len(result) = args.limit
    /\ Len(scored) > args.limit
    /\ \E i \in S_eligible : i \notin IdsOf(scored)

C7_VarietyCount ==
    lastOp \in {"search", "_ensure_variety"} =>
        /\ Len(result) = Min(args.limit, Len(scored))
        /\ \A k \in 1..Len(result) : result[k] \in Range(scored)
        /\ \A j, k \in 1..Len(result) : j # k => result[j] # result[k]
        /\ Len(scored) <= args.limit => result = scored

\* a call whose first pass took fewer than N items, so that the rest was filled in
C7_Witness ==
    /\ lastOp = "_ensure_variety"
    /\ Len(scored) > args.limit
    /\ Len(result) = args.limit
    /\ \E k \in 1..Len(result) :
          \E j \in 1..(k - 1) :
              /\ result[k].content_category = result[j].content_category
              /\ S_extract_domain(result[k].source_url) # NullText
              /\ S_extract_domain(result[k].source_url)
                    = S_extract_domain(result[j].source_url)

\* C8: on a library of three eligible items a (tags startups, quality 9),
\* b (tags startups, quality 3) and c (tags writing, quality 5), a and b of one
\* category and one source and c of another category, search("startups", 2)
\* ranks a above b and returns exactly {a, c}
C8_ExampleYieldsAC ==
    LET Example(a, b, c) ==
            /\ Len(insights) = 3
            /\ {a, b, c} = Ids
            /\ \A i \in Ids : insights[i].useful_for_daily
            /\ insights[a].tags = TagStartups /\ insights[a].quality_score = 9
            /\ insights[b].tags = TagStartups /\ insights[b].quality_score = 3
            /\ insights[c].tags = TagWriting /\ insights[c].quality_score = 5
            /\ insights[a].content_category = insights[b].content_category
            /\ insights[c].content_category # insights[a].content_category
            /\ S_extract_domain(insights[a].source_url)
                  = S_extract_domain(insights[b].source_url)
    IN \A a, b, c \in Ids :
          (/\ lastOp = "search"
           /\ args.topic = TopicStartups
           /\ args.limit = 2
           /\ Example(a, b, c))
              => /\ IdsOf(result) = {a, c}
                 /\ \E j, k \in 1..Len(scored) :
                       j < k /\ scored[j].id = a /\ scored[k].id = b

\* C9: semantic_search returns at most limit insights in order of
\* non-increasing similarity_score, and insights of equal similarity stay in
\* the order in which the query loaded them
C9_SortedStableBounded ==
    lastOp = "semantic_search" =>
        /\ Len(result) <= args.limit
        /\ \A j, k \in 1..Len(result) :
              j < k =>
                 /\ result[j].similarity_score >= result[k].similarity_score
                 /\ result[j].similarity_score = result[k].similarity_score
                       => \E a, b \in 1..Len(loaded) :
                             a < b /\ loaded[a] = result[j].id
                                   /\ loaded[b] = result[k].id

\* a search cut to its limit that returned two insights of equal similarity
\* which the query had loaded behind an insight of smaller similarity
C9_Witness ==
    /\ lastOp = "semantic_search"
    /\ Len(loaded) > args.limit
    /\ Len(result) = args.limit
    /\ \E j, k \in 1..Len(result) :
          j < k /\ result[j].similarity_score = result[k].similarity_score
    /\ loaded[1] \notin IdsOf(result)

\* C10: a semantic search for an owner, without session token, returns no
\* insight of another owner and no insight saved under an anonymous session
\* token
C10_OwnerScope ==
    (/\ lastOp = "semantic_search"
     /\ args.user_id # NullInt
     /\ args.trial_key = NoTrialKey)
        => \A k \in 1..Len(result) :
              /\ insights[result[k].id].user_id \in {args.user_id, NullInt}
              /\ insights[result[k].id].trial_key = NoTrialKey

\* C3: search, semantic_search and get_daily_three return no insight whose
\* useful_for_daily is false
C3_OnlyUsefulReturned ==
    lastOp \in {"search", "semantic_search", "get_daily_three"} =>
        \A k \in 1..Len(result) : insights[result[k].id].useful_for_daily

\* a semantic search over the whole library that returned an insight while an
\* archived insight with an embedding was stored
C3_Witness ==
    /\ lastOp = "semantic_search"
    /\ args.user_id = NullInt /\ args.trial_key = NoTrialKey
    /\ result # <<>>
    /\ \E i \in Ids : /\ ~insights[i].useful_for_daily
                      /\ insights[i].embedding \notin {NullText, <<>>}

\* C11: without a completion service classify_query answers every non-empty
\* query with the type "recall", the query itself as the intent and no key
\* concepts
C11_NoClientRecall ==
    (lastOp = "classify_query" /\ ~args.client /\ Len(args.query) > 0)
        => /\ Len(result) = 1
           /\ result[1].type = "recall"
           /\ result[1].intent = args.query
           /\ result[1].key_concepts = <<>>

C11_Witness ==
    /\ lastOp = "classify_query"
    /\ ~args.client
    /\ args.query = TopicTheArt
    /\ result[1].intent = TopicTheArt

\* C12: whatever the completion service replies, the classification
\* classify_query returns has a type and the type is one of the six
C12_TypeIsValid ==
    lastOp = "classify_query"
        => /\ "type" \in DOMAIN result[1]
           /\ result[1].type \in QueryTypes

\* C13: route_query does not raise and returns one structured response when
\* the completion service is unavailable, be the client missing or its call
\* failing inside the handler
C13_RouterNeverRaises ==
    (lastOp = "route_query" /\ (~args.client \/ args.completion = "failed"))
        => (~raised /\ Len(result) = 1 /\ "type" \in DOMAIN result[1])

\* C14: the response of route_query has an insights key holding a sequence,
\* for every type
C14_InsightsKey ==
    (lastOp = "route_query" /\ ~raised)
        => /\ "insights" \in DOMAIN result[1]
           /\ DOMAIN result[1].insights = 1..Len(result[1].insights)

\* C15: every route_query classified as synthesis adds exactly one record to
\* syntheses, with or without the completion service; the record holds the
\* query, the answer and the ids of the returned insights in rank order, and
\* synthesis_id is its id
C15_SynthesisPersisted ==
    [][(lastOp' = "route_query" /\ args'.type = "synthesis")
          => /\ ~raised'
             /\ Len(syntheses') = Len(syntheses) + 1
             /\ SubSeq(syntheses', 1, Len(syntheses)) = syntheses
             /\ LET record == syntheses'[Len(syntheses')]
                IN /\ record.query = args'.query
                   /\ record.synthesis_text = result'[1].response
                   /\ json_loads(record.source_insights)
                         = IdsSeq(result'[1].insights)
                   /\ result'[1].insights = Take(scored', SynthesisTop)
                   /\ result'[1].synthesis_id = record.id]_vars

\* C16: only a route_query of type synthesis adds a record to syntheses, and
\* no operation changes or removes a record
C16_OnlySynthesisCreates ==
    [][/\ Len(syntheses') >= Len(syntheses)
       /\ SubSeq(syntheses', 1, Len(syntheses)) = syntheses
       /\ syntheses' # syntheses
            => (lastOp' = "route_query" /\ args'.type = "synthesis")]_vars

C16_Witness ==
    /\ Len(syntheses) = 1
    /\ lastOp = "route_query"
    /\ args.type = "explore"
    /\ ~raised

\* C17: search, semantic_search, classify_query and route_query leave every
\* field of every insight unchanged, and the daily selection changes no
\* field but last_shown_date
C17_ReadOnlyOverInsights ==
    [][/\ lastOp' \in {"search", "semantic_search", "classify_query", "route_query"}
            => insights' = insights
       /\ lastOp' = "get_daily_insights"
            => /\ Len(insights') = Len(insights)
               /\ \A i \in 1..Len(insights) :
                     [insights'[i] EXCEPT !.last_shown_date = NullInt]
                        = [insights[i] EXCEPT !.last_shown_date = NullInt]]_vars

C17_Witness ==
    /\ lastOp = "route_query"
    /\ Len(result) = 1
    /\ \E i \in Ids : insights[i].last_shown_date = today

\* C18: cosine_similarity returns 0 when an argument has norm zero, with and
\* without numpy
C18_ZeroNormYieldsZero ==
    (lastOp = "cosine_similarity"
       /\ (Dot(args.a, args.a, 1) = 0 \/ Dot(args.b, args.b, 1) = 0))
        => result[1] = 0

\* C19: at every point of embed_all_insights at most 10 embeddings are
\* written and not yet committed, whatever items are skipped or fail
C19_UncommittedBounded ==
    embed_run.active => Len(embed_run.uncommitted) <= CommitEvery

\* C20: after get_daily_three every insight it returned has last_shown_date
\* equal to today, for every number of candidates
C20_ReturnedAreStamped ==
    (lastOp = "get_daily_three" /\ ~raised)
        => \A k \in 1..Len(result) :
              insights[result[k].id].last_shown_date = today

\* C21: the first pass of ContentSearchEngine._ensure_variety accepts an
\* item only if its category differs from the category of every item
\* accepted before it or its source domain, absent or not, differs from the
\* source domain of every item accepted before it
C21_FirstPassAcceptsNew ==
    (lastOp \in {"search", "_ensure_variety"} /\ Len(scored) > args.limit)
        => LET accepted == S_first_pass(scored, args.limit, 1, <<>>, {}, {})
           IN \A k \in 1..Len(accepted) :
                 \/ \A j \in 1..(k - 1) :
                       accepted[j].content_category # accepted[k].content_category
                 \/ \A j \in 1..(k - 1) :
                       S_extract_domain(accepted[j].source_url)
                          # S_extract_domain(accepted[k].source_url)

C23_OneShotDispatch ==
    lastOp = "route_query"
        => LET t == IF args.type \in QueryTypes THEN args.type ELSE "recall"
               handler == CASE t = "recall" -> "handle_recall"
                            [] t = "synthesis" -> "handle_synthesis"
                            [] t = "pattern" -> "handle_pattern"
                            [] t = "decision" -> "handle_decision"
                            [] t = "generate" -> "handle_generate"
                            [] OTHER -> "handle_explore"
           IN /\ args.calls = <<"classify_query", "semantic_search", handler>>
              /\ ~raised => (Len(result) = 1 /\ result[1].type = t)

C23_Witness ==
    /\ lastOp = "route_query"
    /\ args.type = "summary"
    /\ ~raised
    /\ result[1].type = "recall"

\* C24: no run of embed_all_insights, semantic_search or route_query changes
\* a stored non-empty embedding, and an embedding is written only to a useful
\* insight that had none
C24_EmbeddingStable ==
    [][/\ Len(insights') = Len(insights)
       /\ \A i \in Ids :
             insights'[i].embedding # insights[i].embedding
                => /\ insights[i].embedding \in {NullText, <<>>}
                   /\ insights[i].useful_for_daily]_vars

C24_Witness ==
    /\ Len(insights) = 3
    /\ insights[3].embedding \notin {NullText, <<>>}
    /\ lastOp = "route_query"
    /\ Len(result) = 1
    /\ result[1].type = "recall"
    /\ Len(result[1].insights) = 3

\* C25: under every interleaving of concurrent get_daily_insights calls on
\* one date, daily_sessions holds at most one row for that date
C25_OneSessionPerDate ==
    \A d \in 0..MaxDay : Len(SessionsOn(d)) <= 1

C25_Witness ==
    /\ \A p \in Callers : callers[p].pc = "done" /\ ~callers[p].found
                             /\ ~callers[p].raised
    /\ Len(session_rows) = 1
    /\ session_rows[1].id = MaxCallers

\* C26: two get_daily_insights calls that run at once on one date, with no
\* session stored for it at the start, return the same set of insights, the
\* set the date's session records
C26_SameSelection ==
    (\A p \in Callers : callers[p].pc = "done" /\ ~callers[p].raised)
        => /\ Len(SessionsOn(today)) = 1
           /\ \A p \in Callers :
                 IdsOf(callers[p].returned)
                    = IdsOf(V2_session_rows(SessionsOn(today)[1].insights_shown))

C28_AbsentEmbeddingTolerated ==
    /\ (lastOp = "semantic_search" /\ ~args.embedded)
          => (~raised /\ result = <<>>)
    /\ (lastOp = "route_query" /\ ~args.embedded)
          => /\ ~raised
             /\ Len(result) = 1
             /\ result[1].type \in QueryTypes
             /\ scored = <<>>

\* C29: the insights a handler returns are the first min(k, number of search
\* results) search results in search order, k = 5 for recall, 15 for
\* synthesis, 20 for pattern, 15 for decision, 10 for generate; the generate
\* handler returns whatever the state of the completion service
C29_TopK ==
    lastOp = "handle"
        => /\ args.type = "generate" => ~raised
           /\ ~raised =>
                LET k == CASE args.type = "recall" -> 5
                           [] args.type = "synthesis" -> 15
                           [] args.type = "pattern" -> 20
                           [] args.type = "decision" -> 15
                           [] args.type = "generate" -> 10
                    n == IF Len(scored) < k THEN Len(scored) ELSE k
                IN /\ Len(result) = 1
                   /\ result[1].insights = [j \in 1..n |-> scored[j]]

\* the pattern handler given 21 search results returned the first 20
C29_Witness ==
    /\ lastOp = "handle"
    /\ args.type = "pattern"
    /\ ~raised
    /\ Len(scored) = 21
    /\ Len(result[1].insights) = 20

\* C30: after run_deduplication, whatever pairs are similar, no original of a
\* group is marked as a duplicate by the run, every insight the run marks is
\* the duplicate of one original only, the original's id is smaller than the
\* ids of its duplicates, and the store records that original for each of them
C30_NoDuplicateChains ==
    lastOp = "run_deduplication"
        => LET marked(g) == {result[g].duplicate_ids[d] :
                                d \in 1..Len(result[g].duplicate_ids)}
           IN \A g \in 1..Len(result) :
                 /\ \A h \in 1..Len(result) : result[g].original_id \notin marked(h)
                 /\ \A h \in 1..Len(result) : h # g => marked(g) \cap marked(h) = {}
                 /\ Cardinality(marked(g)) = Len(result[g].duplicate_ids)
                 /\ \A id \in marked(g) :
                       /\ result[g].original_id < id
                       /\ insights[id].is_duplicate
                       /\ insights[id].duplicate_of_id = result[g].original_id

\* a run over three long notes where the first is similar to the second and
\* the second to the third, but not the first to the third: the second is
\* marked, the third is not made its duplicate
C30_Witness ==
    /\ lastOp = "run_deduplication"
    /\ args.similar = {<<1, 2>>, <<2, 3>>}
    /\ Len(result) = 1
    /\ result[1].original_id = 1
    /\ result[1].duplicate_ids = <<2>>
    /\ insights[2].duplicate_of_id = 1

=============================================================================
